---- MODULE Spec2Model ----
(***************************************************************************)
(* A model of backend/server.py of cognivio-teacher-assessment: the score  *)
(* banding, the narrative generators, the video analysis task and the      *)
(* aggregation endpoints (roster, dashboard, summary insights).            *)
(*                                                                         *)
(* Numbers.  A Python float f that is a stored or returned score is held   *)
(* as the integer 1000*f ("milli-points"): 7.996 is 7996.  A mean, which   *)
(* the code computes as sum(scores) / len(scores), is held exactly as the  *)
(* fraction [n |-> sum, d |-> len]; a single score s is the fraction s/1.  *)
(* round(x, 2) and round(x, 1) round the exact value half-to-even.         *)
(* Python's None is the empty tuple <<>> (None), and a present optional    *)
(* number x is <<x>>.                                                      *)
(***************************************************************************)
EXTENDS Integers, Sequences, FiniteSets, TLC

VARIABLES
    lvl_score,      \* the argument get_performance_level is called with
    lvl_out,        \* what the call returned ("none" before the call)
    narr_in,        \* the element_scores list handed to the narrative generator
    narr_out,       \* generate_recommendations' return value (<<"none">> before the call)
    selection,      \* db.framework_selections: user id -> None or Some(document)
    teachers,       \* db.teachers, in insertion order
    teacher_count,  \* how many teacher ids have been drawn (uuid4 never repeats)
    videos,         \* db.videos, in insertion order; video n has id n
    tasks,          \* the analyze_video task of video n: its position and locals
    files,          \* the ids of the videos whose file is in the upload directory
    assessments,    \* db.assessments, in insertion order
    clock,          \* the number of assessment documents built so far: the k-th
                    \* is built at time k and gets the k-th uuid4, k, as its id
    resp,           \* the response of the request the last step handled; a record
                    \* with kind "none" after a step of a background task or of
                    \* a request that has not answered yet
    users,          \* db.users, in insertion order
    registrations,  \* the register requests received: their email and position
    held            \* None, or what a user's client still shows from its last
                    \* full read: the user, the clock, the answers, and the
                    \* user's own documents at that time

levelVars == <<lvl_score, lvl_out>>
narrVars == <<narr_in, narr_out>>
dbVars == <<selection, teachers, teacher_count, videos, tasks, files, assessments, clock>>
authVars == <<users, registrations>>
clientVars == <<held>>
sysVars == <<selection, teachers, teacher_count, videos, tasks, files, assessments, clock, resp,
             users, registrations, held>>
vars == <<lvl_score, lvl_out, narr_in, narr_out, selection, teachers, teacher_count,
          videos, tasks, files, assessments, clock, resp, users, registrations, held>>

---------------------------------------------------------------------------
(* Bounds of the model *)

\* the largest denominator (number of averaged scores) of a banded mean
MaxDen == 3

\* the longest element score list handed to the narrative generator
MaxNarr == 4

\* how many teachers, videos and assessments are ever created
MaxTeachers == 2
MaxVideos == 2
MaxAssessments == 2

---------------------------------------------------------------------------
(* Numbers *)

Pt(x) == x * 1000

None == <<>>
Some(x) == <<x>>

Frac(n, d) == [n |-> n, d |-> d]
Float(s) == Frac(s, 1)

\* a >= k where a is a fraction and k a number of milli-points
FracGe(a, k) == a.n >= k * a.d

RECURSIVE Gcd(_, _)
Gcd(a, b) == IF b = 0 THEN a ELSE Gcd(b, a % b)

\* the fraction n/d (d > 0) in lowest terms
Lowest(n, d) ==
    LET g == Gcd(IF n < 0 THEN 0 - n ELSE n, d)
    IN  Frac(n \div g, d \div g)

\* a < k, a + b, a - b and a / k (k a positive integer) on fractions; a
\* float difference or quotient is held exactly
FracLt(a, k) == a.n < k * a.d
FracAdd(a, b) == Lowest(a.n * b.d + b.n * a.d, a.d * b.d)
FracSub(a, b) == Lowest(a.n * b.d - b.n * a.d, a.d * b.d)
FracDiv(a, k) == Lowest(a.n, a.d * k)

RECURSIVE Sum(_)
Sum(s) == IF s = <<>> THEN 0 ELSE Head(s) + Sum(Tail(s))

RECURSIVE Product(_)
Product(s) == IF s = <<>> THEN 1 ELSE Head(s) * Product(Tail(s))

\* integers that order as the fractions do: each over the common denominator
FracKeys(fracs) ==
    LET common == Product([i \in 1..Len(fracs) |-> fracs[i].d])
    IN  [i \in 1..Len(fracs) |-> fracs[i].n * (common \div fracs[i].d)]

\* sum(scores) / len(scores), for a non-empty list
Mean(scores) == Frac(Sum(scores), Len(scores))

\* the integer nearest to n/d (d > 0), ties to the even one
RoundHalfEven(n, d) ==
    LET q == n \div d
        r == n - q * d
    IN  IF 2 * r < d THEN q
        ELSE IF 2 * r > d THEN q + 1
        ELSE IF q % 2 = 0 THEN q ELSE q + 1

\* round(x, 2) of the fraction x, in milli-points
Round2(x) == 10 * RoundHalfEven(x.n, x.d * 10)

\* round(x, 1) of the fraction x, in milli-points
Round1(x) == 100 * RoundHalfEven(x.n, x.d * 100)

---------------------------------------------------------------------------
(* get_performance_level *)

\* a plausible slip: the top band opens above 8 instead of at 8
get_performance_level_gt(score) ==
    IF score.n > Pt(8) * score.d THEN "excellent"
    ELSE IF FracGe(score, Pt(5)) THEN "needs_improvement"
    ELSE "critical"

get_performance_level(score) ==
    IF FracGe(score, Pt(8)) THEN "excellent"
    ELSE IF FracGe(score, Pt(5)) THEN "needs_improvement"
    ELSE "critical"

Levels == {"excellent", "needs_improvement", "critical"}

\* a plausible slip: the legacy mapping takes over the 1-10 band names
test_get_performance_level_bands(score) ==
    IF 2 * score.n >= Pt(7) * score.d THEN "excellent"
    ELSE IF 2 * score.n >= Pt(5) * score.d THEN "needs_improvement"
    ELSE "critical"

\* the legacy 1-4 mapping: get_performance_level as
\* TestScoreNormalization.test_performance_level_mapping defines it
test_get_performance_level(score) ==
    IF 2 * score.n >= Pt(7) * score.d THEN "Distinguished"
    ELSE IF 2 * score.n >= Pt(5) * score.d THEN "Proficient"
    ELSE IF 2 * score.n >= Pt(3) * score.d THEN "Basic"
    ELSE "Unsatisfactory"

---------------------------------------------------------------------------
(* The framework catalog *)

El(id, name) == [id |-> id, name |-> name]

DANIELSON_FRAMEWORK ==
    [name |-> "Danielson Framework", type |-> "danielson", domains |-> <<
        [id |-> "d1", name |-> "Domain 1: Planning and Preparation", elements |-> <<
            El("d1a", "Demonstrating Knowledge of Content and Pedagogy"),
            El("d1b", "Demonstrating Knowledge of Students"),
            El("d1c", "Setting Instructional Outcomes"),
            El("d1d", "Demonstrating Knowledge of Resources"),
            El("d1e", "Designing Coherent Instruction"),
            El("d1f", "Designing Student Assessments")>>],
        [id |-> "d2", name |-> "Domain 2: Classroom Environment", elements |-> <<
            El("d2a", "Creating an Environment of Respect and Rapport"),
            El("d2b", "Establishing a Culture for Learning"),
            El("d2c", "Managing Classroom Procedures"),
            El("d2d", "Managing Student Behavior"),
            El("d2e", "Organizing Physical Space")>>],
        [id |-> "d3", name |-> "Domain 3: Instruction", elements |-> <<
            El("d3a", "Communicating with Students"),
            El("d3b", "Using Questioning and Discussion Techniques"),
            El("d3c", "Engaging Students in Learning"),
            El("d3d", "Using Assessment in Instruction"),
            El("d3e", "Demonstrating Flexibility and Responsiveness")>>],
        [id |-> "d4", name |-> "Domain 4: Professional Responsibilities", elements |-> <<
            El("d4a", "Reflecting on Teaching"),
            El("d4b", "Maintaining Accurate Records"),
            El("d4c", "Communicating with Families"),
            El("d4d", "Participating in the Professional Community"),
            El("d4e", "Growing and Developing Professionally"),
            El("d4f", "Showing Professionalism")>>]>>]

MARSHALL_FRAMEWORK ==
    [name |-> "Marshall Teacher Evaluation Rubrics", type |-> "marshall", domains |-> <<
        [id |-> "m1", name |-> "A. Planning and Preparation for Learning", elements |-> <<
            El("m1a", "Knowledge of Subject Matter"),
            El("m1b", "Strategic Planning"),
            El("m1c", "Curriculum Alignment"),
            El("m1d", "Assessment Design"),
            El("m1e", "Anticipating Student Needs"),
            El("m1f", "Lesson Preparation"),
            El("m1g", "Student Engagement Planning"),
            El("m1h", "Materials Preparation"),
            El("m1i", "Differentiation Planning"),
            El("m1j", "Environment Setup")>>],
        [id |-> "m2", name |-> "B. Classroom Management", elements |-> <<
            El("m2a", "Expectations and Norms"),
            El("m2b", "Student Relationships"),
            El("m2c", "Routines and Procedures"),
            El("m2d", "Behavior Management"),
            El("m2e", "Physical Space Organization")>>],
        [id |-> "m3", name |-> "C. Delivery of Instruction", elements |-> <<
            El("m3a", "Clear Communication"),
            El("m3b", "Questioning Techniques"),
            El("m3c", "Student Engagement"),
            El("m3d", "Pacing and Flexibility"),
            El("m3e", "Differentiated Instruction")>>],
        [id |-> "m4", name |-> "D. Monitoring, Assessment, and Follow-Up", elements |-> <<
            El("m4a", "Ongoing Assessment"),
            El("m4b", "Feedback Quality"),
            El("m4c", "Data-Driven Decisions"),
            El("m4d", "Student Progress Tracking")>>],
        [id |-> "m5", name |-> "E. Family and Community Outreach", elements |-> <<
            El("m5a", "Family Communication"),
            El("m5b", "Community Engagement"),
            El("m5c", "Cultural Responsiveness")>>],
        [id |-> "m6", name |-> "F. Professional Responsibilities", elements |-> <<
            El("m6a", "Self-Reflection"),
            El("m6b", "Professional Development"),
            El("m6c", "Collaboration"),
            El("m6d", "School Community Participation")>>]>>]

\* every element of the framework's domains, in catalog order
AllElements(framework) ==
    LET ds == framework.domains
        F[i \in 0..Len(ds)] == IF i = 0 THEN <<>> ELSE F[i - 1] \o ds[i].elements
    IN  F[Len(ds)]

---------------------------------------------------------------------------
(* Lists *)

\* the first n entries of s: s[:n]
Take(s, n) == SubSeq(s, 1, IF Len(s) < n THEN Len(s) ELSE n)

\* the last n entries of s: s[-n:]
LastN(s, n) == SubSeq(s, IF Len(s) > n THEN Len(s) - n + 1 ELSE 1, Len(s))

\* [s[i] for i in range(len(s)) if keep[i]]: keep is the list of the filter's
\* verdicts, one per entry of s
SelectList(s, keep) ==
    LET F[i \in 0..Len(s)] ==
            IF i = 0 THEN <<>>
            ELSE IF keep[i] THEN Append(F[i - 1], s[i]) ELSE F[i - 1]
    IN  F[Len(s)]

\* a plausible slip: an unstable sort, the new index goes in front of its equals
InsertByKey_front(t, x, key) ==
    LET p == Cardinality({j \in 1..Len(t) : key[t[j]] < key[x]})
    IN  SubSeq(t, 1, p) \o <<x>> \o SubSeq(t, p + 1, Len(t))

\* the index x put into the index list t, which is sorted by key, behind
\* every index whose key is <= key[x]
InsertByKey(t, x, key) ==
    LET p == Cardinality({j \in 1..Len(t) : key[t[j]] <= key[x]})
    IN  SubSeq(t, 1, p) \o <<x>> \o SubSeq(t, p + 1, Len(t))

\* sorted(s, key=...): ascending and stable; key is the list of the entries'
\* keys, one per entry of s
SortedByKey(s, key) ==
    LET F[i \in 0..Len(s)] ==
            IF i = 0 THEN <<>> ELSE InsertByKey(F[i - 1], i, key)
        order == F[Len(s)]
    IN  [i \in 1..Len(s) |-> s[order[i]]]

\* [Get(x) for x in s] is written [i \in 1..Len(s) |-> Get(s[i])]

\* ', '.join(names)
RECURSIVE Join(_)
Join(names) ==
    IF names = <<>> THEN ""
    ELSE IF Len(names) = 1 THEN names[1]
    ELSE names[1] \o ", " \o Join(Tail(names))

---------------------------------------------------------------------------
(* The narrative generator.  An element score is a record; a key the dict  *)
(* does not hold is None in the record.                                    *)

\* es.get("score", 0)
GetScore(es) == IF es.score = None THEN 0 ELSE es.score[1]

DefaultRecommendation ==
    "Excellent performance across all evaluated areas. Consider leadership or mentoring opportunities."

Recommendation(es) ==
    IF GetScore(es) < Pt(2)
    THEN "Priority: Focus on improving " \o es.element_name
         \o ". Consider mentorship or targeted professional development."
    ELSE "Continue developing skills in " \o es.element_name
         \o ". Review best practices and observe peer teachers."

IsLowScore(es) == GetScore(es) < Pt(3)

RECURSIVE MapRecommendation(_)
MapRecommendation(s) ==
    IF s = <<>> THEN <<>> ELSE <<Recommendation(Head(s))>> \o MapRecommendation(Tail(s))

\* a plausible slip: the [:3] cut is left out
generate_recommendations_uncut(element_scores) ==
    LET low == SelectList(element_scores,
                          [i \in 1..Len(element_scores) |-> IsLowScore(element_scores[i])])
        low_scores == SortedByKey(low, [i \in 1..Len(low) |-> GetScore(low[i])])
        recommendations == MapRecommendation(low_scores)
    IN  IF recommendations = <<>> THEN <<DefaultRecommendation>> ELSE recommendations

generate_recommendations(element_scores) ==
    LET low == SelectList(element_scores,
                          [i \in 1..Len(element_scores) |-> IsLowScore(element_scores[i])])
        low_scores == Take(SortedByKey(low, [i \in 1..Len(low) |-> GetScore(low[i])]), 3)
        recommendations == MapRecommendation(low_scores)
    IN  IF recommendations = <<>> THEN <<DefaultRecommendation>> ELSE recommendations

TitleLevel(level) ==
    CASE level = "excellent" -> "Excellent"
      [] level = "needs_improvement" -> "Needs Improvement"
      [] level = "critical" -> "Critical"

\* Python numbers handed to generate_summary: a float, or the int literal 0
FloatNum(m) == [kind |-> "float", v |-> m]
IntNum(i) == [kind |-> "int", v |-> Pt(i)]

\* the decimals of a float's str(): at least one digit, no trailing zeros
DecimalsStr(f) ==
    IF f % 100 = 0 THEN ToString(f \div 100)
    ELSE IF f % 10 = 0
         THEN (IF f < 100 THEN "0" ELSE "") \o ToString(f \div 10)
         ELSE (IF f < 10 THEN "00" ELSE IF f < 100 THEN "0" ELSE "") \o ToString(f)

\* f"{x}" of a number x >= 0
NumStr(x) ==
    IF x.kind = "int" THEN ToString(x.v \div 1000)
    ELSE ToString(x.v \div 1000) \o "." \o DecimalsStr(x.v % 1000)

IsStrength(es) == GetScore(es) >= Pt(3)
\* a plausible slip: the growth cut is put where the strength cut is
IsGrowthArea_below3(es) == GetScore(es) < Pt(3)

IsGrowthArea(es) == 2 * GetScore(es) < Pt(5)

ElementNames(s) == [i \in 1..Len(s) |-> s[i].element_name]

generate_summary(element_scores, overall_score) ==
    LET level == get_performance_level(Float(overall_score.v))
        strengths == ElementNames(SelectList(element_scores,
            [i \in 1..Len(element_scores) |-> IsStrength(element_scores[i])]))
        areas_for_growth == ElementNames(SelectList(element_scores,
            [i \in 1..Len(element_scores) |-> IsGrowthArea(element_scores[i])]))
        opening == "Overall performance: " \o TitleLevel(level)
                   \o " (Score: " \o NumStr(overall_score) \o "/10)."
        part2 == IF strengths # <<>>
                 THEN " Key strengths include: " \o Join(Take(strengths, 3)) \o "."
                 ELSE ""
        part3 == IF areas_for_growth # <<>>
                 THEN " Areas for professional growth: "
                      \o Join(Take(areas_for_growth, 3)) \o "."
                 ELSE ""
    IN  opening \o part2 \o part3

---------------------------------------------------------------------------
(* Ordered dicts: a Python dict is the list of its [key, val] items in     *)
(* insertion order.                                                        *)

DictHas(d, k) == \E i \in 1..Len(d) : d[i].key = k

DictGet(d, k) == d[CHOOSE i \in 1..Len(d) : d[i].key = k].val

\* d[k] = v
DictSet(d, k, v) ==
    IF DictHas(d, k)
    THEN [i \in 1..Len(d) |-> IF d[i].key = k THEN [key |-> k, val |-> v] ELSE d[i]]
    ELSE Append(d, [key |-> k, val |-> v])

---------------------------------------------------------------------------
(* The state of the service: the database collections, the upload          *)
(* directory, the background analysis tasks and the last response.         *)

Users == {"u1"}

\* the users that have an account: u2 makes requests where the separation
\* of the users' data is examined
AllUsers == Users \cup {"u2"}

\* the catalog elements whose scores the model follows; the handlers treat
\* every element alike
TrackedIds == {"d1a", "d1b", "m1a"}

\* the framework with its untracked elements left out
Tracked(framework) ==
    [domains |->
        [i \in 1..Len(framework.domains) |->
            [id |-> framework.domains[i].id,
             name |-> framework.domains[i].name,
             elements |-> SelectList(framework.domains[i].elements,
                 [j \in 1..Len(framework.domains[i].elements) |->
                     framework.domains[i].elements[j].id \in TrackedIds])]]]

Lower(name) ==
    CASE name = "Demonstrating Knowledge of Content and Pedagogy" -> "demonstrating knowledge of content and pedagogy"
      [] name = "Demonstrating Knowledge of Students" -> "demonstrating knowledge of students"
      [] name = "Setting Instructional Outcomes" -> "setting instructional outcomes"
      [] name = "Demonstrating Knowledge of Resources" -> "demonstrating knowledge of resources"
      [] name = "Designing Coherent Instruction" -> "designing coherent instruction"
      [] name = "Designing Student Assessments" -> "designing student assessments"
      [] name = "Creating an Environment of Respect and Rapport" -> "creating an environment of respect and rapport"
      [] name = "Establishing a Culture for Learning" -> "establishing a culture for learning"
      [] name = "Managing Classroom Procedures" -> "managing classroom procedures"
      [] name = "Managing Student Behavior" -> "managing student behavior"
      [] name = "Organizing Physical Space" -> "organizing physical space"
      [] name = "Communicating with Students" -> "communicating with students"
      [] name = "Using Questioning and Discussion Techniques" -> "using questioning and discussion techniques"
      [] name = "Engaging Students in Learning" -> "engaging students in learning"
      [] name = "Using Assessment in Instruction" -> "using assessment in instruction"
      [] name = "Demonstrating Flexibility and Responsiveness" -> "demonstrating flexibility and responsiveness"
      [] name = "Reflecting on Teaching" -> "reflecting on teaching"
      [] name = "Maintaining Accurate Records" -> "maintaining accurate records"
      [] name = "Communicating with Families" -> "communicating with families"
      [] name = "Participating in the Professional Community" -> "participating in the professional community"
      [] name = "Growing and Developing Professionally" -> "growing and developing professionally"
      [] name = "Showing Professionalism" -> "showing professionalism"
      [] name = "Knowledge of Subject Matter" -> "knowledge of subject matter"
      [] name = "Strategic Planning" -> "strategic planning"
      [] name = "Curriculum Alignment" -> "curriculum alignment"
      [] name = "Assessment Design" -> "assessment design"
      [] name = "Anticipating Student Needs" -> "anticipating student needs"
      [] name = "Lesson Preparation" -> "lesson preparation"
      [] name = "Student Engagement Planning" -> "student engagement planning"
      [] name = "Materials Preparation" -> "materials preparation"
      [] name = "Differentiation Planning" -> "differentiation planning"
      [] name = "Environment Setup" -> "environment setup"
      [] name = "Expectations and Norms" -> "expectations and norms"
      [] name = "Student Relationships" -> "student relationships"
      [] name = "Routines and Procedures" -> "routines and procedures"
      [] name = "Behavior Management" -> "behavior management"
      [] name = "Physical Space Organization" -> "physical space organization"
      [] name = "Clear Communication" -> "clear communication"
      [] name = "Questioning Techniques" -> "questioning techniques"
      [] name = "Student Engagement" -> "student engagement"
      [] name = "Pacing and Flexibility" -> "pacing and flexibility"
      [] name = "Differentiated Instruction" -> "differentiated instruction"
      [] name = "Ongoing Assessment" -> "ongoing assessment"
      [] name = "Feedback Quality" -> "feedback quality"
      [] name = "Data-Driven Decisions" -> "data-driven decisions"
      [] name = "Student Progress Tracking" -> "student progress tracking"
      [] name = "Family Communication" -> "family communication"
      [] name = "Community Engagement" -> "community engagement"
      [] name = "Cultural Responsiveness" -> "cultural responsiveness"
      [] name = "Self-Reflection" -> "self-reflection"
      [] name = "Professional Development" -> "professional development"
      [] name = "Collaboration" -> "collaboration"
      [] name = "School Community Participation" -> "school community participation"

\* one tick of the clock is one reading of datetime.now(); a day is DayTicks
\* ticks, more than the model ever reads the clock
DayTicks == 100

---------------------------------------------------------------------------
(* Initial values of the variable groups *)

InitLevelIdle ==
    /\ lvl_score = Float(0)
    /\ lvl_out = "none"

InitNarrIdle ==
    /\ narr_in = <<>>
    /\ narr_out = <<"none">>

NoResponse == [kind |-> "none"]

\* an empty database, an empty upload directory, no task
InitSys ==
    /\ selection = [u \in AllUsers |-> None]
    /\ teachers = <<>>
    /\ teacher_count = 0
    /\ videos = <<>>
    /\ tasks = <<>>
    /\ files = {}
    /\ assessments = <<>>
    /\ clock = 0
    /\ resp = NoResponse
    /\ users = <<>>
    /\ registrations = <<>>
    /\ held = None

---------------------------------------------------------------------------
(* analyze_frames_with_ai and generate_mock_scores.  An element score is   *)
(* the record                                                              *)
(*   [element_id, element_name, score, level, observations, scale]         *)
(* where score and observations are None when the dict lacks the key, and  *)
(* scale names the scale the producer of the score works on: "1-4" for the *)
(* AI model (the prompt asks for 1-4), "1-10" for the mock generator and   *)
(* the demo seeding.  The advisory confidence field is left out.           *)

\* [e for domain in framework["domains"] for e in domain["elements"]
\*    if not selected_elements or e["id"] in selected_elements]
ElementsToAnalyze(framework, selected_elements) ==
    LET all == AllElements(framework)
    IN  SelectList(all,
            [i \in 1..Len(all) |->
                \/ selected_elements = <<>>
                \/ \E j \in 1..Len(selected_elements) : selected_elements[j] = all[i].id])

MockObservations(name, score) ==
    << IF score >= Pt(3)
       THEN "Teacher demonstrates " \o Lower(name) \o " effectively"
       ELSE "Room for improvement in " \o Lower(name),
       IF 2 * score >= Pt(5)
       THEN "Student engagement observed"
       ELSE "Consider strategies to increase engagement" >>

\* draws[i] is the value random.uniform(4.0, 9.5) returns for element i
generate_mock_scores(elements, draws) ==
    [i \in 1..Len(elements) |->
        LET score == Round1(Float(draws[i]))
        IN  [element_id |-> elements[i].id,
             element_name |-> elements[i].name,
             score |-> Some(score),
             level |-> get_performance_level(Float(score)),
             observations |-> Some(MockObservations(elements[i].name, score)),
             scale |-> "1-10"]]

\* a plausible slip: the level the model's answer carries is kept
AddLevels_kept(element_scores) == element_scores

\* for es in element_scores: es["level"] = get_performance_level(es.get("score", 0))
AddLevels(element_scores) ==
    [i \in 1..Len(element_scores) |->
        [element_scores[i] EXCEPT
            !.level = get_performance_level(Float(GetScore(element_scores[i])))]]

\* what analyze_frames_with_ai returns: the model's parsed answer with the
\* levels added, or mock scores (package or key missing, the call or the
\* parse failed, no JSON in the answer)
analyze_frames_with_ai(framework, selected_elements, outcome, draws) ==
    IF outcome.kind = "ai"
    THEN AddLevels(outcome.element_scores)
    ELSE generate_mock_scores(ElementsToAnalyze(framework, selected_elements), draws)

---------------------------------------------------------------------------
(* analyze_video *)

\* a plausible slip: the custom framework lists the Marshall domains first
FrameworkOf_marshall_first(framework_type) ==
    IF framework_type = "danielson" THEN Tracked(DANIELSON_FRAMEWORK)
    ELSE IF framework_type = "marshall" THEN Tracked(MARSHALL_FRAMEWORK)
    ELSE [domains |-> Tracked(MARSHALL_FRAMEWORK).domains
                      \o Tracked(DANIELSON_FRAMEWORK).domains]

FrameworkOf(framework_type) ==
    IF framework_type = "danielson" THEN Tracked(DANIELSON_FRAMEWORK)
    ELSE IF framework_type = "marshall" THEN Tracked(MARSHALL_FRAMEWORK)
    ELSE [domains |-> Tracked(DANIELSON_FRAMEWORK).domains
                      \o Tracked(MARSHALL_FRAMEWORK).domains]

\* [es["score"] for es in element_scores if es["score"] > 0]
ValidScores(element_scores) ==
    LET positive == SelectList(element_scores,
            [i \in 1..Len(element_scores) |-> element_scores[i].score[1] > 0])
    IN  [i \in 1..Len(positive) |-> positive[i].score[1]]

\* round(sum(valid_scores) / len(valid_scores), 2) if valid_scores else 0
OverallNumber(valid_scores) ==
    IF valid_scores # <<>> THEN FloatNum(Round2(Mean(valid_scores))) ELSE IntNum(0)

\* es["score"] raises KeyError for an element without a score
ScoresPresent(element_scores) ==
    \A i \in 1..Len(element_scores) : element_scores[i].score # None

AssessmentDoc(id, video_id, teacher_id, user_id, framework_type, element_scores, overall, analyzed_at) ==
    [id |-> id,
     video_id |-> video_id,
     teacher_id |-> teacher_id,
     user_id |-> user_id,
     framework_type |-> framework_type,
     element_scores |-> element_scores,
     overall_score |-> Some(overall.v),
     summary |-> generate_summary(element_scores, overall),
     recommendations |-> generate_recommendations(element_scores),
     analyzed_at |-> analyzed_at]

\* the answers of the AI model the analysis may get: for every list of
\* element ids in in.ai_lists, an element score per id with a score of
\* in.ai_scores and in.ai_obs observations (-1: no "observations" key)
AIChoices(in) ==
    UNION { { [i \in 1..Len(ids) |->
                 [element_id |-> ids[i], score |-> c[i].score, nobs |-> c[i].nobs]] :
              c \in [1..Len(ids) -> [score : in.ai_scores, nobs : in.ai_obs]] } :
            ids \in in.ai_lists }

CatalogName(id) ==
    LET all == AllElements(DANIELSON_FRAMEWORK) \o AllElements(MARSHALL_FRAMEWORK)
    IN  all[CHOOSE i \in 1..Len(all) : all[i].id = id].name

\* the k-th observation of the i-th element of the answer for video v
ObservationText(v, i, k) ==
    "observation " \o ToString(v) \o "." \o ToString(i) \o "." \o ToString(k)

AIAnswer(v, choice) ==
    [i \in 1..Len(choice) |->
        [element_id |-> choice[i].element_id,
         element_name |-> CatalogName(choice[i].element_id),
         score |-> choice[i].score,
         level |-> "unset",
         observations |->
            IF choice[i].nobs < 0 THEN None
            ELSE Some([k \in 1..choice[i].nobs |-> ObservationText(v, i, k)]),
         scale |-> "1-4"]]

\* the selection document analyze_video reads, with its defaults
SelectionFrameworkType(user_id) ==
    IF selection[user_id] = None THEN "danielson" ELSE selection[user_id][1].framework_type

SelectionElements(user_id) ==
    IF selection[user_id] = None THEN <<>> ELSE selection[user_id][1].selected_elements

Task(pc, video_id, teacher_id, user_id, doc) ==
    [pc |-> pc, video_id |-> video_id, teacher_id |-> teacher_id, user_id |-> user_id, doc |-> doc]

SetTask(v, pc, doc) == [tasks EXCEPT ![v] = [@ EXCEPT !.pc = pc, !.doc = doc]]

SetVideo(v, status, assessment_id) ==
    [videos EXCEPT ![v] = [@ EXCEPT !.status = status, !.assessment_id = assessment_id]]

\* lines 1250-1298: the selection is read, the frames are extracted and
\* analysed, and the assessment document is built.  A failed query, or an
\* element score without a score, raises.
AnalyzeRun(v, in) ==
    /\ v \in 1..Len(tasks)
    /\ tasks[v].pc = "queued"
    /\ \E ok \in in.db_ok :
       \E outcome \in {[kind |-> "mock"] : k \in in.mock}
                       \cup {[kind |-> "ai", element_scores |-> AIAnswer(v, c)] : c \in AIChoices(in)} :
          LET t == tasks[v]
              framework_type == SelectionFrameworkType(t.user_id)
              selected_elements == SelectionElements(t.user_id)
              framework == FrameworkOf(framework_type)
              n == Len(ElementsToAnalyze(framework, selected_elements))
          IN  \E draws \in [1..(IF outcome.kind = "mock" THEN n ELSE 0) -> in.mock_draws] :
                LET element_scores ==
                        analyze_frames_with_ai(framework, selected_elements, outcome, draws)
                IN  IF ok /\ ScoresPresent(element_scores)
                    THEN /\ tasks' = SetTask(v, "insert",
                                Some(AssessmentDoc(clock + 1, t.video_id, t.teacher_id, t.user_id, framework_type,
                                         element_scores,
                                         OverallNumber(ValidScores(element_scores)),
                                         clock + 1)))
                         /\ clock' = clock + 1
                    ELSE /\ tasks' = SetTask(v, "except", None)
                         /\ clock' = clock
    /\ resp' = NoResponse
    /\ UNCHANGED <<selection, teachers, teacher_count, videos, files, assessments>>
    /\ UNCHANGED <<levelVars, narrVars, authVars, clientVars>>

\* a plausible slip: the task does not move on after the insert, so the
\* insert runs again
AnalyzeInsert_again(v, in) ==
    /\ v \in 1..Len(tasks)
    /\ tasks[v].pc = "insert"
    /\ Len(assessments) <= MaxAssessments
    /\ \E ok \in in.db_ok :
          IF ok
          THEN /\ assessments' = Append(assessments, tasks[v].doc[1])
               /\ \E pc \in {"insert", "update"} : tasks' = SetTask(v, pc, tasks[v].doc)
          ELSE /\ tasks' = SetTask(v, "except", tasks[v].doc)
               /\ UNCHANGED assessments
    /\ resp' = NoResponse
    /\ UNCHANGED <<selection, teachers, teacher_count, videos, files, clock>>
    /\ UNCHANGED <<levelVars, narrVars, authVars, clientVars>>

\* a plausible slip: the task moves on to the status update without the
\* assessment having been stored
AnalyzeInsert_lost(v, in) ==
    /\ v \in 1..Len(tasks)
    /\ tasks[v].pc = "insert"
    /\ \E ok \in in.db_ok :
          IF ok
          THEN /\ tasks' = SetTask(v, "update", tasks[v].doc)
               /\ UNCHANGED assessments
          ELSE /\ tasks' = SetTask(v, "except", tasks[v].doc)
               /\ UNCHANGED assessments
    /\ resp' = NoResponse
    /\ UNCHANGED <<selection, teachers, teacher_count, videos, files, clock>>
    /\ UNCHANGED <<levelVars, narrVars, authVars, clientVars>>

\* line 1300: db.assessments.insert_one, which may raise
AnalyzeInsert(v, in) ==
    /\ v \in 1..Len(tasks)
    /\ tasks[v].pc = "insert"
    /\ \E ok \in in.db_ok :
          IF ok
          THEN /\ assessments' = Append(assessments, tasks[v].doc[1])
               /\ tasks' = SetTask(v, "update", tasks[v].doc)
          ELSE /\ tasks' = SetTask(v, "except", tasks[v].doc)
               /\ UNCHANGED assessments
    /\ resp' = NoResponse
    /\ UNCHANGED <<selection, teachers, teacher_count, videos, files, clock>>
    /\ UNCHANGED <<levelVars, narrVars, authVars, clientVars>>

\* lines 1303-1306: the video is marked completed, which may raise
AnalyzeUpdate(v, in) ==
    /\ v \in 1..Len(tasks)
    /\ tasks[v].pc = "update"
    /\ \E ok \in in.db_ok :
          IF ok
          THEN /\ videos' = SetVideo(v, "completed", Some(tasks[v].doc[1].id))
               /\ tasks' = SetTask(v, "finally", tasks[v].doc)
          ELSE /\ tasks' = SetTask(v, "except", tasks[v].doc)
               /\ UNCHANGED videos
    /\ resp' = NoResponse
    /\ UNCHANGED <<selection, teachers, teacher_count, files, assessments, clock>>
    /\ UNCHANGED <<levelVars, narrVars, authVars, clientVars>>

\* lines 1310-1315: the video is marked as failed; when that write raises
\* too, the exception leaves the task after the finally block
AnalyzeExcept(v, in) ==
    /\ v \in 1..Len(tasks)
    /\ tasks[v].pc = "except"
    /\ \E ok \in in.db_ok :
          IF ok
          THEN videos' = SetVideo(v, "error", videos[v].assessment_id)
          ELSE UNCHANGED videos
    /\ resp' = NoResponse
    /\ tasks' = SetTask(v, "finally", tasks[v].doc)
    /\ UNCHANGED <<selection, teachers, teacher_count, files, assessments, clock>>
    /\ UNCHANGED <<levelVars, narrVars, authVars, clientVars>>

\* lines 1316-1322: the uploaded file is removed; a failed removal is logged
AnalyzeFinally(v, in) ==
    /\ v \in 1..Len(tasks)
    /\ tasks[v].pc = "finally"
    /\ \E ok \in in.db_ok : files' = IF ok THEN files \ {v} ELSE files
    /\ tasks' = SetTask(v, "done", tasks[v].doc)
    /\ resp' = NoResponse
    /\ UNCHANGED <<selection, teachers, teacher_count, videos, assessments, clock>>
    /\ UNCHANGED <<levelVars, narrVars, authVars, clientVars>>

---------------------------------------------------------------------------
(* The request handlers that write *)

Message(text) == [kind |-> "message", message |-> text]
HttpError(status, detail) == [kind |-> "error", status |-> status, detail |-> detail]

\* GET /frameworks/{framework_type}: the body of the response
FrameworkDetails(framework_type) ==
    IF framework_type = "danielson" THEN DANIELSON_FRAMEWORK
    ELSE IF framework_type = "marshall" THEN MARSHALL_FRAMEWORK
    ELSE [name |-> "Custom Framework",
          type |-> "custom",
          domains |-> DANIELSON_FRAMEWORK.domains \o MARSHALL_FRAMEWORK.domains]

get_framework_details(framework_type) ==
    /\ resp' = [kind |-> "framework", framework_type |-> framework_type,
                body |-> FrameworkDetails(framework_type)]
    /\ UNCHANGED dbVars
    /\ UNCHANGED <<levelVars, narrVars, authVars, clientVars>>

\* POST /frameworks/selection
save_framework_selection(user, framework_type, selected_elements) ==
    /\ selection' = [selection EXCEPT ![user] =
            Some([user_id |-> user, framework_type |-> framework_type,
                  selected_elements |-> selected_elements])]
    /\ resp' = Message("Selection saved")
    /\ UNCHANGED <<teachers, teacher_count, videos, tasks, files, assessments, clock>>
    /\ UNCHANGED <<levelVars, narrVars, authVars, clientVars>>

\* POST /teachers
create_teacher(user, teacher) ==
    /\ teacher_count < MaxTeachers
    /\ teachers' = Append(teachers,
            [id |-> teacher_count + 1, name |-> teacher.name, email |-> teacher.email,
             subject |-> teacher.subject, created_by |-> user])
    /\ teacher_count' = teacher_count + 1
    /\ resp' = [kind |-> "teacher", id |-> teacher_count + 1]
    /\ UNCHANGED <<selection, videos, tasks, files, assessments, clock>>
    /\ UNCHANGED <<levelVars, narrVars, authVars, clientVars>>

OwnTeacher(user, teacher_id) ==
    \E i \in 1..Len(teachers) : teachers[i].id = teacher_id /\ teachers[i].created_by = user

\* a plausible slip: the teacher's assessments are deleted with the teacher
delete_teacher_cascade(user, teacher_id) ==
    /\ IF OwnTeacher(user, teacher_id)
       THEN /\ teachers' = SelectList(teachers,
                    [i \in 1..Len(teachers) |->
                        ~(teachers[i].id = teacher_id /\ teachers[i].created_by = user)])
            /\ assessments' = SelectList(assessments,
                    [i \in 1..Len(assessments) |-> assessments[i].teacher_id # teacher_id])
            /\ resp' = Message("Teacher deleted")
       ELSE /\ teachers' = teachers
            /\ assessments' = assessments
            /\ resp' = HttpError(404, "Teacher not found")
    /\ UNCHANGED <<selection, teacher_count, videos, tasks, files, clock>>
    /\ UNCHANGED <<levelVars, narrVars, authVars, clientVars>>

\* DELETE /teachers/{teacher_id}
delete_teacher(user, teacher_id) ==
    /\ IF OwnTeacher(user, teacher_id)
       THEN /\ teachers' = SelectList(teachers,
                    [i \in 1..Len(teachers) |->
                        ~(teachers[i].id = teacher_id /\ teachers[i].created_by = user)])
            /\ resp' = Message("Teacher deleted")
       ELSE /\ teachers' = teachers
            /\ resp' = HttpError(404, "Teacher not found")
    /\ UNCHANGED <<selection, teacher_count, videos, tasks, files, assessments, clock>>
    /\ UNCHANGED <<levelVars, narrVars, authVars, clientVars>>

\* POST /videos/upload; file is "ok", "bad_type" (the extension or content
\* type is not a video's) or "too_large" (over 500 MB: the partly written
\* file is removed again)
upload_video(user, teacher_id, file) ==
    /\ Len(videos) < MaxVideos
    /\ IF file = "bad_type"
       THEN /\ resp' = HttpError(400, "Invalid file type")
            /\ UNCHANGED <<videos, tasks, files>>
       ELSE IF ~OwnTeacher(user, teacher_id)
       THEN /\ resp' = HttpError(404, "Teacher not found")
            /\ UNCHANGED <<videos, tasks, files>>
       ELSE IF file = "too_large"
       THEN /\ resp' = HttpError(400, "File too large (max 500MB)")
            /\ UNCHANGED <<videos, tasks, files>>
       ELSE LET video_id == Len(videos) + 1
            IN  /\ files' = files \cup {video_id}
                /\ videos' = Append(videos,
                        [id |-> video_id, teacher_id |-> teacher_id, uploaded_by |-> user,
                         status |-> "processing", assessment_id |-> None])
                /\ tasks' = Append(tasks, Task("queued", video_id, teacher_id, user, None))
                /\ resp' = [kind |-> "video", id |-> video_id, status |-> "processing"]
    /\ UNCHANGED <<selection, teachers, teacher_count, assessments, clock>>
    /\ UNCHANGED <<levelVars, narrVars, authVars, clientVars>>

\* the first entries of demo_teachers (the source lists six)
DemoTeachers ==
    << [name |-> "Sarah Johnson", email |-> "sarah.j@school.edu", subject |-> "Mathematics"],
       [name |-> "Michael Chen", email |-> "michael.c@school.edu", subject |-> "English Literature"] >>

Min(a, b) == IF a < b THEN a ELSE b

\* lines 1564-1583: bases[i] is the value random.uniform(4.0, 9.5) returns
\* for the i-th Danielson element
SeedElementScores(teacher, bases) ==
    LET elements == AllElements(Tracked(DANIELSON_FRAMEWORK))
    IN  [i \in 1..Len(elements) |->
            LET base_score ==
                    IF teacher.subject \in {"Mathematics", "Chemistry"}
                    THEN Min(Pt(4), bases[i] + 300)
                    ELSE bases[i]
                score == Round1(Float(base_score))
            IN  [element_id |-> elements[i].id,
                 element_name |-> elements[i].name,
                 score |-> Some(score),
                 level |-> get_performance_level(Float(score)),
                 observations |-> Some(<<"Observed " \o Lower(elements[i].name)
                                         \o " during classroom instruction">>),
                 scale |-> "1-10"]]

\* the teacher documents after the first loop of seed_demo_data has handled
\* the first j demo teachers, and the teachers it collected
SeedTeachers(user, j) ==
    LET F[k \in 0..j] ==
            IF k = 0 THEN [docs |-> teachers, created |-> <<>>]
            ELSE LET d == DemoTeachers[k]
                     before == F[k - 1]
                     found == {i \in 1..Len(before.docs) :
                                  /\ before.docs[i].email = d.email
                                  /\ before.docs[i].created_by = user}
                 IN  IF found # {}
                     THEN [docs |-> before.docs,
                           created |-> Append(before.created,
                               before.docs[CHOOSE i \in found : \A i2 \in found : i <= i2])]
                     ELSE LET doc == [id |-> teacher_count + 1 + Len(before.docs) - Len(teachers),
                                      name |-> d.name, email |-> d.email,
                                      subject |-> d.subject, created_by |-> user]
                          IN  [docs |-> Append(before.docs, doc),
                               created |-> Append(before.created, doc)]
    IN  F[j]

\* what the random draws of one seeding may be: for every teacher a list of
\* in.seed_counts assessments, each days_ago old with its elements' bases
SeedPlans(in) ==
    UNION {[1..c -> [days_ago : in.seed_days,
                     bases : [1..Len(AllElements(Tracked(DANIELSON_FRAMEWORK))) -> in.seed_draws]]] :
              c \in in.seed_counts}

\* the assessment documents the second loop inserts, in order
SeedAssessments(user, created, plan) ==
    LET F[j \in 0..Len(created)] ==
            IF j = 0 THEN <<>>
            ELSE LET before == F[j - 1]
                 IN  before \o
                 [k \in 1..Len(plan[j]) |->
                    LET now == clock + Len(before) + k
                        element_scores == SeedElementScores(created[j], plan[j][k].bases)
                        scores == [i \in 1..Len(element_scores) |-> element_scores[i].score[1]]
                    IN  AssessmentDoc(now, 0 - now, created[j].id, user, "danielson",
                            element_scores, FloatNum(Round2(Mean(scores))),
                            now - plan[j][k].days_ago * DayTicks)]
    IN  F[Len(created)]

\* POST /seed-demo-data
seed_demo_data(user, in) ==
    LET seeded == SeedTeachers(user, Len(DemoTeachers))
    IN  /\ teacher_count + Len(seeded.docs) - Len(teachers) <= MaxTeachers
        /\ \E plan \in [1..Len(seeded.created) -> SeedPlans(in)] :
              LET docs == SeedAssessments(user, seeded.created, plan)
              IN  /\ Len(assessments) + Sum([j \in 1..Len(plan) |-> Len(plan[j])])
                        <= MaxAssessments
                  /\ assessments' = assessments \o docs
                  /\ clock' = clock + Len(docs)
        /\ teachers' = seeded.docs
        /\ teacher_count' = teacher_count + Len(seeded.docs) - Len(teachers)
        /\ resp' = Message("Created " \o ToString(Len(seeded.created))
                           \o " teachers with demo assessments")
        /\ UNCHANGED <<selection, videos, tasks, files>>
        /\ UNCHANGED <<levelVars, narrVars, authVars, clientVars>>

---------------------------------------------------------------------------
(* The request handlers that read.  A query's dates are None or Some(t).   *)

NoDates == [start_date |-> None, end_date |-> None]

\* db.assessments.find({"teacher_id": ..., "user_id": ...}) with the
\* analyzed_at condition the handlers add when both dates are given
FindAssessments(teacher_id, user_id, dates) ==
    SelectList(assessments,
        [i \in 1..Len(assessments) |->
            /\ assessments[i].teacher_id = teacher_id
            /\ assessments[i].user_id = user_id
            /\ (dates.start_date # None /\ dates.end_date # None)
                  => /\ assessments[i].analyzed_at >= dates.start_date[1]
                     /\ assessments[i].analyzed_at <= dates.end_date[1]])

\* the projection {"_id": 0, "user_id": 0}
WithoutUser(doc) == [f \in (DOMAIN doc) \ {"user_id"} |-> doc[f]]

\* for assessment in assessments: for es in assessment.get("element_scores", [])
RECURSIVE FlattenScores(_)
FlattenScores(docs) ==
    IF docs = <<>> THEN <<>> ELSE Head(docs).element_scores \o FlattenScores(Tail(docs))

\* [es["score"] for es in all_scores if es["element_id"] == element_id]
ScoresFor(all_scores, element_id) ==
    LET hit == SelectList(all_scores,
                   [i \in 1..Len(all_scores) |-> all_scores[i].element_id = element_id])
    IN  [i \in 1..Len(hit) |-> hit[i].score[1]]

ElementIds(framework) ==
    LET all == AllElements(framework) IN [i \in 1..Len(all) |-> all[i].id]

\* lines 809-822: the saved selection's elements, else all Danielson elements
RosterSelectedElements(user) ==
    IF selection[user] # None
    THEN selection[user][1].selected_elements
    ELSE ElementIds(Tracked(DANIELSON_FRAMEWORK))

\* a plausible slip: the level is taken from the rounded average
RosterElementScore_rounded(scores) ==
    IF scores # <<>>
    THEN [score |-> Some(Round2(Mean(scores))),
          level |-> Some(get_performance_level(Float(Round2(Mean(scores)))))]
    ELSE [score |-> None, level |-> None]

\* lines 854-866
RosterElementScore(scores) ==
    IF scores # <<>>
    THEN [score |-> Some(Round2(Mean(scores))),
          level |-> Some(get_performance_level(Mean(scores)))]
    ELSE [score |-> None, level |-> None]

\* lines 845-866: the element_scores dict of one teacher
RosterElementScores(selected_elements, docs) ==
    LET all_scores == FlattenScores(docs)
        F[k \in 0..Len(selected_elements)] ==
            IF k = 0 THEN <<>>
            ELSE DictSet(F[k - 1], selected_elements[k],
                         RosterElementScore(ScoresFor(all_scores, selected_elements[k])))
    IN  F[Len(selected_elements)]

\* a plausible slip: an element without scores counts as 0
RosterOverall_zero(element_scores) ==
    IF element_scores # <<>>
    THEN Some(Round2(Mean([i \in 1..Len(element_scores) |->
                  IF element_scores[i].val.score = None THEN 0
                  ELSE element_scores[i].val.score[1]])))
    ELSE None

\* lines 868-870
RosterOverall(element_scores) ==
    LET present == SelectList(element_scores,
                       [i \in 1..Len(element_scores) |-> element_scores[i].val.score # None])
        valid_scores == [i \in 1..Len(present) |-> present[i].val.score[1]]
    IN  IF valid_scores # <<>> THEN Some(Round2(Mean(valid_scores))) ELSE None

RosterEntry(teacher, user, selected_elements, dates) ==
    LET docs == FindAssessments(teacher.id, user, dates)
        element_scores == RosterElementScores(selected_elements, docs)
    IN  [teacher_id |-> teacher.id,
         teacher_name |-> teacher.name,
         subject |-> teacher.subject,
         element_scores |-> element_scores,
         overall_score |-> RosterOverall(element_scores),
         assessment_count |-> Len(docs),
         last_assessment_date |->
            IF docs # <<>> THEN Some(docs[Len(docs)].analyzed_at) ELSE None]

\* a plausible slip: the roster lists the teachers of every user
RosterResponse_all_teachers(user, dates) ==
    LET selected_elements == RosterSelectedElements(user)
    IN  [kind |-> "roster",
         user |-> user,
         dates |-> dates,
         selected_elements |-> selected_elements,
         roster |-> [i \in 1..Len(teachers) |->
                        RosterEntry(teachers[i], user, selected_elements, dates)]]

\* GET /roster; a response of a reading handler carries, besides its body,
\* the request it answers (user, teacher_id, dates)
RosterResponse(user, dates) ==
    LET selected_elements == RosterSelectedElements(user)
        own == SelectList(teachers, [i \in 1..Len(teachers) |-> teachers[i].created_by = user])
    IN  [kind |-> "roster",
         user |-> user,
         dates |-> dates,
         selected_elements |-> selected_elements,
         roster |-> [i \in 1..Len(own) |-> RosterEntry(own[i], user, selected_elements, dates)]]

\* GET /assessments; teacher_id is None or Some(id)
AssessmentsResponse(user, teacher_id) ==
    LET found == SelectList(assessments,
                    [i \in 1..Len(assessments) |->
                        /\ assessments[i].user_id = user
                        /\ teacher_id # None => assessments[i].teacher_id = teacher_id[1]])
    IN  [kind |-> "assessments",
         user |-> user,
         teacher_id |-> teacher_id,
         assessments |-> [i \in 1..Len(found) |-> WithoutUser(found[i])]]

get_teacher_roster(user, dates) ==
    /\ resp' = RosterResponse(user, dates)
    /\ UNCHANGED dbVars
    /\ UNCHANGED <<levelVars, narrVars, authVars, clientVars>>

\* lines 922-928: one trend point per assessment; the dict comprehension
\* keeps the last score of an element id
TrendPoint(doc) ==
    LET F[i \in 0..Len(doc.element_scores)] ==
            IF i = 0 THEN <<>>
            ELSE DictSet(F[i - 1], doc.element_scores[i].element_id,
                         doc.element_scores[i].score[1])
    IN  [date |-> doc.analyzed_at,
         overall_score |-> doc.overall_score,
         element_scores |-> F[Len(doc.element_scores)]]

\* a plausible slip: a group keeps only the score that arrived last
ElementAggregates_last(all_scores) ==
    LET F[i \in 0..Len(all_scores)] ==
            IF i = 0 THEN <<>>
            ELSE LET es == all_scores[i]
                     old == [element_name |-> es.element_name,
                             scores |-> <<>>, observations |-> <<>>]
                 IN  DictSet(F[i - 1], es.element_id,
                        [old EXCEPT
                            !.scores = Append(@, es.score[1]),
                            !.observations =
                                @ \o (IF es.observations = None THEN <<>>
                                      ELSE es.observations[1])])
    IN  F[Len(all_scores)]

\* lines 931-941: the groups, in the order their element ids first appear
ElementAggregates(all_scores) ==
    LET F[i \in 0..Len(all_scores)] ==
            IF i = 0 THEN <<>>
            ELSE LET es == all_scores[i]
                     before == F[i - 1]
                     old == IF DictHas(before, es.element_id)
                            THEN DictGet(before, es.element_id)
                            ELSE [element_name |-> es.element_name,
                                  scores |-> <<>>, observations |-> <<>>]
                 IN  DictSet(before, es.element_id,
                        [old EXCEPT
                            !.scores = Append(@, es.score[1]),
                            !.observations =
                                @ \o (IF es.observations = None THEN <<>>
                                      ELSE es.observations[1])])
    IN  F[Len(all_scores)]

\* a plausible slip: the first five observations are kept
RecentObservations_first(observations) ==
    IF observations # <<>> THEN Take(observations, 5) ELSE <<>>

\* data["observations"][-5:] if data["observations"] else []
RecentObservations(observations) ==
    IF observations # <<>> THEN LastN(observations, 5) ELSE <<>>

\* lines 944-955
ElementSummary(element_aggregates) ==
    [i \in 1..Len(element_aggregates) |->
        LET data == element_aggregates[i].val
            avg_score == IF data.scores # <<>> THEN Mean(data.scores) ELSE Float(0)
        IN  [element_id |-> element_aggregates[i].key,
             element_name |-> data.element_name,
             average_score |-> Round2(avg_score),
             level |-> get_performance_level(avg_score),
             assessment_count |-> Len(data.scores),
             recent_observations |-> RecentObservations(data.observations)]]

AnalyzedAt(docs) == [i \in 1..Len(docs) |-> docs[i].analyzed_at]

\* GET /teachers/{teacher_id}/dashboard
DashboardResponse(user, teacher_id, dates) ==
    IF ~OwnTeacher(user, teacher_id)
    THEN HttpError(404, "Teacher not found")
    ELSE LET found == FindAssessments(teacher_id, user, dates)
             sorted == SortedByKey(found, AnalyzedAt(found))
             docs == [i \in 1..Len(sorted) |-> WithoutUser(sorted[i])]
             own == SelectList(videos,
                        [i \in 1..Len(videos) |->
                            /\ videos[i].teacher_id = teacher_id
                            /\ videos[i].uploaded_by = user])
         IN  [kind |-> "dashboard",
              user |-> user,
              teacher_id |-> teacher_id,
              dates |-> dates,
              element_summary |-> ElementSummary(ElementAggregates(FlattenScores(docs))),
              trend_data |-> [i \in 1..Len(docs) |-> TrendPoint(docs[i])],
              assessments |-> docs,
              videos |-> [i \in 1..Len(own) |->
                            [f \in (DOMAIN own[i]) \ {"uploaded_by"} |-> own[i][f]]],
              total_assessments |-> Len(docs),
              date_range |->
                 [start |-> IF docs # <<>> THEN Some(docs[1].analyzed_at) ELSE None,
                  end |-> IF docs # <<>> THEN Some(docs[Len(docs)].analyzed_at) ELSE None]]

get_teacher_dashboard(user, teacher_id, dates) ==
    /\ resp' = DashboardResponse(user, teacher_id, dates)
    /\ UNCHANGED dbVars
    /\ UNCHANGED <<levelVars, narrVars, authVars, clientVars>>

\* a plausible slip: the trend is the mean of the per-element averages
OverallTrend_by_element(aggregated_scores, all_scores) ==
    IF all_scores # <<>>
    THEN Some(Round2(Mean([i \in 1..Len(aggregated_scores) |->
                  Round2(Mean(aggregated_scores[i].val.scores))])))
    ELSE None

\* lines 710-712: the average across all element scores
OverallTrend(aggregated_scores, all_scores) ==
    IF all_scores # <<>> THEN Some(Round2(Mean(all_scores))) ELSE None

\* lines 714-726
SyntheticElementScores(aggregated_scores) ==
    LET scored == SelectList(aggregated_scores,
                      [i \in 1..Len(aggregated_scores) |->
                          aggregated_scores[i].val.scores # <<>>])
    IN  [i \in 1..Len(scored) |->
            [element_id |-> scored[i].key,
             element_name |-> scored[i].val.element_name,
             score |-> Some(Round2(Mean(scored[i].val.scores)))]]

\* GET /teachers/{teacher_id}/summary-insights
InsightsResponse(user, teacher_id) ==
    LET found == FindAssessments(teacher_id, user, NoDates)
        docs == Take(SortedByKey(found, [i \in 1..Len(found) |-> 0 - found[i].analyzed_at]), 50)
    IN  IF docs = <<>>
        THEN [kind |-> "insights", user |-> user, teacher_id |-> teacher_id,
              overall_trend_score |-> None, summary |-> "", recommendations |-> <<>>]
        ELSE LET all_element_scores == FlattenScores(docs)
                 aggregated_scores == ElementAggregates(all_element_scores)
                 all_scores == [i \in 1..Len(all_element_scores) |->
                                   all_element_scores[i].score[1]]
                 overall_trend == OverallTrend(aggregated_scores, all_scores)
                 synthetic == SyntheticElementScores(aggregated_scores)
             IN  [kind |-> "insights", user |-> user, teacher_id |-> teacher_id,
                  overall_trend_score |-> overall_trend,
                  summary |-> generate_summary(synthetic,
                      IF overall_trend = None \/ overall_trend = Some(0)
                      THEN IntNum(0) ELSE FloatNum(overall_trend[1])),
                  recommendations |-> generate_recommendations(synthetic)]

get_teacher_summary_insights(user, teacher_id) ==
    /\ resp' = InsightsResponse(user, teacher_id)
    /\ UNCHANGED dbVars
    /\ UNCHANGED <<levelVars, narrVars, authVars, clientVars>>

\* find(...).sort("analyzed_at", -1).to_list(limit)
LatestAssessments(teacher_id, user, limit) ==
    LET found == FindAssessments(teacher_id, user, NoDates)
    IN  Take(SortedByKey(found, [i \in 1..Len(found) |-> 0 - found[i].analyzed_at]), limit)

\* lines 1001-1008 and 1037-1044: the scores of every element id, in the
\* order the ids first appear
ScoresByElement(all_scores) ==
    LET F[i \in 0..Len(all_scores)] ==
            IF i = 0 THEN <<>>
            ELSE LET es == all_scores[i]
                     before == F[i - 1]
                     old == IF DictHas(before, es.element_id)
                            THEN DictGet(before, es.element_id)
                            ELSE [scores |-> <<>>, name |-> es.element_name]
                 IN  DictSet(before, es.element_id,
                             [old EXCEPT !.scores = Append(@, es.score[1])])
    IN  F[Len(all_scores)]

\* lines 1010-1015 and 1046: sum(scores) / len(scores) per element id
ElementAverages(element_scores) ==
    [i \in 1..Len(element_scores) |->
        [key |-> element_scores[i].key,
         val |-> [avg |-> Mean(element_scores[i].val.scores),
                  name |-> element_scores[i].val.name]]]

Keys(d) == [i \in 1..Len(d) |-> d[i].key]

\* a plausible slip: an average of exactly 6 counts as weak
WeakAreas_upto6(target_averages) ==
    LET below == Keys(SelectList(target_averages,
                     [i \in 1..Len(target_averages) |->
                         FracLt(target_averages[i].val.avg, Pt(6) + 1)]))
    IN  IF below # <<>> THEN below
        ELSE Take(SortedByKey(Keys(target_averages),
                      FracKeys([i \in 1..Len(target_averages) |->
                                   target_averages[i].val.avg])), 3)

\* lines 1017-1020
WeakAreas(target_averages) ==
    LET below == Keys(SelectList(target_averages,
                     [i \in 1..Len(target_averages) |->
                         FracLt(target_averages[i].val.avg, Pt(6))]))
    IN  IF below # <<>> THEN below
        ELSE Take(SortedByKey(Keys(target_averages),
                      FracKeys([i \in 1..Len(target_averages) |->
                                   target_averages[i].val.avg])), 3)

\* a plausible slip: the target's entry is looked up under a key that is
\* never there, so the defaults are always taken
PeerStrengths_defaults(weak_areas, peer_averages, target_averages) ==
    LET F[k \in 0..Len(weak_areas)] ==
            IF k = 0 THEN [strengths |-> <<>>, match_score |-> Frac(0, 1)]
            ELSE LET weak_area == weak_areas[k]
                     before == F[k - 1]
                 IN  IF /\ DictHas(peer_averages, weak_area)
                        /\ FracGe(DictGet(peer_averages, weak_area).avg, Pt(7))
                     THEN LET peer_avg == DictGet(peer_averages, weak_area).avg
                              known == DictHas(target_averages, weak_area) /\ FALSE
                          IN  [strengths |-> Append(before.strengths,
                                  [element_id |-> weak_area,
                                   score |-> Round1(peer_avg),
                                   name |-> IF known
                                            THEN DictGet(target_averages, weak_area).name
                                            ELSE weak_area]),
                               match_score |-> FracAdd(before.match_score,
                                  FracDiv(FracSub(peer_avg,
                                              IF known
                                              THEN DictGet(target_averages, weak_area).avg
                                              ELSE Float(Pt(5))), 10))]
                     ELSE before
    IN  F[Len(weak_areas)]

\* lines 1048-1059: the peer's strengths and the match score summed so far
PeerStrengths(weak_areas, peer_averages, target_averages) ==
    LET F[k \in 0..Len(weak_areas)] ==
            IF k = 0 THEN [strengths |-> <<>>, match_score |-> Frac(0, 1)]
            ELSE LET weak_area == weak_areas[k]
                     before == F[k - 1]
                 IN  IF /\ DictHas(peer_averages, weak_area)
                        /\ FracGe(DictGet(peer_averages, weak_area).avg, Pt(7))
                     THEN LET peer_avg == DictGet(peer_averages, weak_area).avg
                              known == DictHas(target_averages, weak_area)
                          IN  [strengths |-> Append(before.strengths,
                                  [element_id |-> weak_area,
                                   score |-> Round1(peer_avg),
                                   name |-> IF known
                                            THEN DictGet(target_averages, weak_area).name
                                            ELSE weak_area]),
                               match_score |-> FracAdd(before.match_score,
                                  FracDiv(FracSub(peer_avg,
                                              IF known
                                              THEN DictGet(target_averages, weak_area).avg
                                              ELSE Float(Pt(5))), 10))]
                     ELSE before
    IN  F[Len(weak_areas)]

\* a plausible slip: the share is not capped at 1.0
MatchScore_uncapped(match_score, weak_areas) ==
    IF weak_areas = <<>> THEN Frac(0, 1)
    ELSE FracDiv(match_score, Len(weak_areas))

\* min(1.0, match_score / len(weak_areas)) if weak_areas else 0
MatchScore(match_score, weak_areas) ==
    IF weak_areas = <<>> THEN Frac(0, 1)
    ELSE LET share == FracDiv(match_score, Len(weak_areas))
         IN  IF FracGe(share, Pt(1)) THEN Float(Pt(1)) ELSE share

\* a plausible slip: the reason names every strength
PeerRecommendation_all_names(peer, target_teacher, user, weak_areas, target_averages) ==
    LET peer_assessments == LatestAssessments(peer.id, user, 10)
        peer_averages == ElementAverages(ScoresByElement(FlattenScores(peer_assessments)))
        found == PeerStrengths(weak_areas, peer_averages, target_averages)
        strengths == found.strengths
        strength_names == [i \in 1..Len(strengths) |->
                              IF strengths[i].name # "" THEN strengths[i].name
                              ELSE strengths[i].element_id]
    IN  IF peer_assessments = <<>> \/ strengths = <<>> THEN None
        ELSE Some([peer_id |-> peer.id,
                   peer_name |-> peer.name,
                   subject |-> peer.subject,
                   strengths |-> Take(strengths, 3),
                   match_score |-> MatchScore(found.match_score, weak_areas),
                   reason |-> "Strong in " \o Join(strength_names)
                              \o (IF peer.subject = target_teacher.subject
                                  THEN " (same subject area)" ELSE "")])

\* a plausible slip: a peer with assessments is recommended whether or not
\* it has a strength
PeerRecommendation_unfiltered(peer, target_teacher, user, weak_areas, target_averages) ==
    LET peer_assessments == LatestAssessments(peer.id, user, 10)
        peer_averages == ElementAverages(ScoresByElement(FlattenScores(peer_assessments)))
        found == PeerStrengths(weak_areas, peer_averages, target_averages)
        strengths == found.strengths
        first_two == Take(strengths, 2)
        strength_names == [i \in 1..Len(first_two) |->
                              IF first_two[i].name # "" THEN first_two[i].name
                              ELSE first_two[i].element_id]
    IN  IF peer_assessments = <<>> THEN None
        ELSE Some([peer_id |-> peer.id,
                   peer_name |-> peer.name,
                   subject |-> peer.subject,
                   strengths |-> Take(strengths, 3),
                   match_score |-> MatchScore(found.match_score, weak_areas),
                   reason |-> "Strong in " \o Join(strength_names)
                              \o (IF peer.subject = target_teacher.subject
                                  THEN " (same subject area)" ELSE "")])

\* lines 1061-1076: the recommendation of one peer, None when the peer has
\* no assessments or no strengths
PeerRecommendation(peer, target_teacher, user, weak_areas, target_averages) ==
    LET peer_assessments == LatestAssessments(peer.id, user, 10)
        peer_averages == ElementAverages(ScoresByElement(FlattenScores(peer_assessments)))
        found == PeerStrengths(weak_areas, peer_averages, target_averages)
        strengths == found.strengths
        first_two == Take(strengths, 2)
        strength_names == [i \in 1..Len(first_two) |->
                              IF first_two[i].name # "" THEN first_two[i].name
                              ELSE first_two[i].element_id]
    IN  IF peer_assessments = <<>> \/ strengths = <<>> THEN None
        ELSE Some([peer_id |-> peer.id,
                   peer_name |-> peer.name,
                   subject |-> peer.subject,
                   strengths |-> Take(strengths, 3),
                   match_score |-> MatchScore(found.match_score, weak_areas),
                   reason |-> "Strong in " \o Join(strength_names)
                              \o (IF peer.subject = target_teacher.subject
                                  THEN " (same subject area)" ELSE "")])

\* a plausible slip: the recommendations are cut without being sorted
PeerResponse_unsorted(user, teacher_id) ==
    IF ~OwnTeacher(user, teacher_id)
    THEN HttpError(404, "Teacher not found")
    ELSE LET target_teacher ==
                 teachers[CHOOSE i \in 1..Len(teachers) :
                     /\ teachers[i].id = teacher_id
                     /\ teachers[i].created_by = user
                     /\ \A j \in 1..(i - 1) :
                           ~(teachers[j].id = teacher_id /\ teachers[j].created_by = user)]
             target_assessments == LatestAssessments(teacher_id, user, 10)
             target_averages ==
                 ElementAverages(ScoresByElement(FlattenScores(target_assessments)))
             weak_areas == WeakAreas(target_averages)
             other_teachers == SelectList(teachers,
                 [i \in 1..Len(teachers) |->
                     teachers[i].created_by = user /\ teachers[i].id # teacher_id])
             found == [i \in 1..Len(other_teachers) |->
                          PeerRecommendation(other_teachers[i], target_teacher, user,
                                             weak_areas, target_averages)]
             present == SelectList(found, [i \in 1..Len(found) |-> found[i] # None])
             recommendations == [i \in 1..Len(present) |-> present[i][1]]
         IN  [kind |-> "peers",
              user |-> user,
              teacher_id |-> teacher_id,
              recommendations |->
                 IF target_assessments = <<>> THEN <<>> ELSE Take(recommendations, 3),
              pool_queries |->
                 IF target_assessments = <<>> THEN <<>>
                 ELSE <<"teachers">> \o [i \in 1..Len(other_teachers) |-> other_teachers[i].id]]

\* a plausible slip: the return for a target without assessments is missing
PeerResponse_no_early_return(user, teacher_id) ==
    IF ~OwnTeacher(user, teacher_id)
    THEN HttpError(404, "Teacher not found")
    ELSE LET target_teacher ==
                 teachers[CHOOSE i \in 1..Len(teachers) :
                     /\ teachers[i].id = teacher_id
                     /\ teachers[i].created_by = user
                     /\ \A j \in 1..(i - 1) :
                           ~(teachers[j].id = teacher_id /\ teachers[j].created_by = user)]
             target_assessments == LatestAssessments(teacher_id, user, 10)
             target_averages ==
                 ElementAverages(ScoresByElement(FlattenScores(target_assessments)))
             weak_areas == WeakAreas(target_averages)
             other_teachers == SelectList(teachers,
                 [i \in 1..Len(teachers) |->
                     teachers[i].created_by = user /\ teachers[i].id # teacher_id])
             found == [i \in 1..Len(other_teachers) |->
                          PeerRecommendation(other_teachers[i], target_teacher, user,
                                             weak_areas, target_averages)]
             present == SelectList(found, [i \in 1..Len(found) |-> found[i] # None])
             recommendations == [i \in 1..Len(present) |-> present[i][1]]
             sorted == SortedByKey(recommendations,
                 FracKeys([i \in 1..Len(recommendations) |->
                     Frac(0 - recommendations[i].match_score.n,
                          recommendations[i].match_score.d)]))
         IN  [kind |-> "peers",
              user |-> user,
              teacher_id |-> teacher_id,
              recommendations |->
                 Take(sorted, 3),
              pool_queries |->
                 <<"teachers">> \o [i \in 1..Len(other_teachers) |-> other_teachers[i].id]]

\* GET /teachers/{teacher_id}/peer-recommendations.  pool_queries lists the
\* queries the handler made after those for the target: "teachers" for
\* the find of the other teachers (line 1023), then the id of every peer
\* whose assessments it fetched (line 1031).
PeerResponse(user, teacher_id) ==
    IF ~OwnTeacher(user, teacher_id)
    THEN HttpError(404, "Teacher not found")
    ELSE LET target_teacher ==
                 teachers[CHOOSE i \in 1..Len(teachers) :
                     /\ teachers[i].id = teacher_id
                     /\ teachers[i].created_by = user
                     /\ \A j \in 1..(i - 1) :
                           ~(teachers[j].id = teacher_id /\ teachers[j].created_by = user)]
             target_assessments == LatestAssessments(teacher_id, user, 10)
             target_averages ==
                 ElementAverages(ScoresByElement(FlattenScores(target_assessments)))
             weak_areas == WeakAreas(target_averages)
             other_teachers == SelectList(teachers,
                 [i \in 1..Len(teachers) |->
                     teachers[i].created_by = user /\ teachers[i].id # teacher_id])
             found == [i \in 1..Len(other_teachers) |->
                          PeerRecommendation(other_teachers[i], target_teacher, user,
                                             weak_areas, target_averages)]
             present == SelectList(found, [i \in 1..Len(found) |-> found[i] # None])
             recommendations == [i \in 1..Len(present) |-> present[i][1]]
             sorted == SortedByKey(recommendations,
                 FracKeys([i \in 1..Len(recommendations) |->
                     Frac(0 - recommendations[i].match_score.n,
                          recommendations[i].match_score.d)]))
         IN  [kind |-> "peers",
              user |-> user,
              teacher_id |-> teacher_id,
              recommendations |->
                 IF target_assessments = <<>> THEN <<>> ELSE Take(sorted, 3),
              pool_queries |->
                 IF target_assessments = <<>> THEN <<>>
                 ELSE <<"teachers">> \o [i \in 1..Len(other_teachers) |-> other_teachers[i].id]]

get_peer_recommendations(user, teacher_id) ==
    /\ resp' = PeerResponse(user, teacher_id)
    /\ UNCHANGED dbVars
    /\ UNCHANGED <<levelVars, narrVars, authVars, clientVars>>

---------------------------------------------------------------------------
(* The service as a whole *)

\* What the environment does in a run is drawn from a record `in` of input
\* sets: ai_lists, ai_scores, ai_obs (the AI model's answers), mock (whether
\* the analysis may fall back to mock scores: {TRUE} or {}), mock_draws,
\* seed_days, seed_counts, seed_draws (the random draws), db_ok (whether a
\* database or file call may fail: FALSE in the set), teacher_inputs,
\* selection_inputs (request bodies), upload_for (the teacher ids videos are
\* uploaded for), date_ranges (query parameters) and one_at_a_time (whether
\* the client waits for a video's analysis to end before it uploads the
\* next).

TasksIdle == \A v \in 1..Len(tasks) : tasks[v].pc = "done"

Ann == [name |-> "Ann Lee", email |-> "ann.l@school.edu", subject |-> "History"]

NextTeachers(in) ==
    \/ \E u \in Users, t \in in.teacher_inputs : create_teacher(u, t)
    \/ \E u \in Users, id \in in.upload_for, file \in {"ok", "bad_type", "too_large"} :
          /\ in.one_at_a_time => TasksIdle
          /\ upload_video(u, id, file)

NextAnalysis(in) ==
    \/ \E v \in 1..MaxVideos : AnalyzeRun(v, in)
    \/ \E v \in 1..MaxVideos : AnalyzeInsert(v, in)
    \/ \E v \in 1..MaxVideos : AnalyzeUpdate(v, in)
    \/ \E v \in 1..MaxVideos : AnalyzeExcept(v, in)
    \/ \E v \in 1..MaxVideos : AnalyzeFinally(v, in)

NextRoster(in) ==
    \E u \in Users, dates \in in.date_ranges : get_teacher_roster(u, dates)

NextDashboard(in) ==
    \E u \in Users, id \in 1..MaxTeachers, dates \in in.date_ranges :
        get_teacher_dashboard(u, id, dates)

NextInsights(in) ==
    \E u \in Users, id \in 1..MaxTeachers : get_teacher_summary_insights(u, id)

NextPeers(in) ==
    \E u \in Users, id \in 1..MaxTeachers : get_peer_recommendations(u, id)

Init ==
    /\ InitLevelIdle
    /\ InitNarrIdle
    /\ InitSys

\* The analysis by every path.  The AI model answers with at most one
\* element score; videos are analysed one at a time.
SysInputs ==
    [ai_lists |-> {<<>>, <<"d1a">>},
     ai_scores |-> {None, Some(0), Some(3000)},
     ai_obs |-> {1},
     mock |-> {TRUE},
     mock_draws |-> {4000, 9460},
     db_ok |-> {TRUE},
     seed_days |-> {1},
     seed_counts |-> {1},
     seed_draws |-> {4000, 9460},
     teacher_inputs |-> {Ann},
     selection_inputs |->
        {[framework_type |-> "danielson", selected_elements |-> <<"m1a">>]},
     upload_for |-> {1},
     date_ranges |-> {NoDates},
     one_at_a_time |-> TRUE]

Next ==
    \/ \E u \in Users, sel \in SysInputs.selection_inputs :
          save_framework_selection(u, sel.framework_type, sel.selected_elements)
    \/ \E u \in Users, id \in 1..MaxTeachers : delete_teacher(u, id)
    \/ \E u \in Users : seed_demo_data(u, SysInputs)
    \/ NextTeachers(SysInputs)
    \/ NextAnalysis(SysInputs)

Spec == Init /\ [][Next]_vars

\* The aggregation endpoints over seeded assessments and what the AI
\* analysis stores: answers with up to two element scores of 3, 7, 7.996 or
\* 9 (or without a score), for videos of two teachers.
AggInputs ==
    [ai_lists |-> {<<>>, <<"d1a">>, <<"d1a", "d1b">>},
     ai_scores |-> {None, Some(3000), Some(7000), Some(7996), Some(9000)},
     ai_obs |-> {0},
     mock |-> {},
     mock_draws |-> {},
     db_ok |-> {TRUE},
     seed_days |-> {1},
     seed_counts |-> {1},
     seed_draws |-> {9460},
     teacher_inputs |-> {Ann},
     upload_for |-> 1..MaxTeachers,
     date_ranges |-> {NoDates},
     one_at_a_time |-> TRUE]

NextAgg ==
    \/ \E u \in Users : seed_demo_data(u, AggInputs)
    \/ NextTeachers(AggInputs)
    \/ NextAnalysis(AggInputs)
    \/ NextRoster(AggInputs)
    \/ NextDashboard(AggInputs)
    \/ NextInsights(AggInputs)
    \/ NextPeers(AggInputs)

SpecAgg == Init /\ [][NextAgg]_vars

\* The dashboard's observations: answers whose element scores carry two or
\* three observations or none, for videos analysed concurrently.
ObsInputs ==
    [ai_lists |-> {<<"d1a">>, <<"d1a", "d1b">>},
     ai_scores |-> {None, Some(7000)},
     ai_obs |-> {-1, 2, 3},
     mock |-> {},
     mock_draws |-> {},
     db_ok |-> {TRUE},
     teacher_inputs |-> {Ann},
     upload_for |-> {1},
     date_ranges |-> {NoDates},
     one_at_a_time |-> FALSE]

NextObs ==
    \/ NextTeachers(ObsInputs)
    \/ NextAnalysis(ObsInputs)
    \/ NextDashboard(ObsInputs)

SpecObs == Init /\ [][NextObs]_vars

\* Every handler and the analysis, one video at a time: the model
\* answers with one element score or with an element that has no score (the
\* analysis then fails and the video is marked as failed).
FrameInputs ==
    [ai_lists |-> {<<"d1a">>},
     ai_scores |-> {None, Some(7000)},
     ai_obs |-> {0},
     mock |-> {},
     mock_draws |-> {},
     db_ok |-> {TRUE},
     seed_days |-> {1},
     seed_counts |-> {1},
     seed_draws |-> {9460},
     teacher_inputs |-> {Ann},
     selection_inputs |->
        {[framework_type |-> "danielson", selected_elements |-> <<"d1a">>]},
     upload_for |-> {1},
     date_ranges |-> {NoDates},
     one_at_a_time |-> TRUE]

NextFrame ==
    \/ \E u \in Users, sel \in FrameInputs.selection_inputs :
          save_framework_selection(u, sel.framework_type, sel.selected_elements)
    \/ \E u \in Users, id \in 1..MaxTeachers : delete_teacher(u, id)
    \/ \E u \in Users : seed_demo_data(u, FrameInputs)
    \/ NextTeachers(FrameInputs)
    \/ NextAnalysis(FrameInputs)
    \/ NextRoster(FrameInputs)
    \/ NextDashboard(FrameInputs)
    \/ NextInsights(FrameInputs)
    \/ NextPeers(FrameInputs)

SpecFrame == Init /\ [][NextFrame]_vars

\* The frameworks: the details endpoint, and analyses under a saved custom
\* or Marshall selection that fall back to mock scores or fail on an AI
\* answer without a score.
CatalogInputs ==
    [ai_lists |-> {<<"d1a">>},
     ai_scores |-> {None},
     ai_obs |-> {0},
     mock |-> {TRUE},
     mock_draws |-> {4000, 9460},
     db_ok |-> {TRUE},
     teacher_inputs |-> {Ann},
     selection_inputs |->
        {[framework_type |-> "custom", selected_elements |-> <<>>],
         [framework_type |-> "custom", selected_elements |-> <<"m1a", "d1a">>],
         [framework_type |-> "marshall", selected_elements |-> <<>>]},
     upload_for |-> {1},
     date_ranges |-> {NoDates},
     one_at_a_time |-> TRUE]

NextCatalog ==
    \/ \E framework_type \in {"danielson", "marshall", "custom"} :
          get_framework_details(framework_type)
    \/ \E u \in Users, sel \in CatalogInputs.selection_inputs :
          save_framework_selection(u, sel.framework_type, sel.selected_elements)
    \/ NextTeachers(CatalogInputs)
    \/ NextAnalysis(CatalogInputs)

SpecCatalog == Init /\ [][NextCatalog]_vars

\* Two users side by side: each creates and deletes teachers and uploads
\* videos that are analysed; the first user reads, the second user also
\* saves a selection.
TenantInputs ==
    [ai_lists |-> {<<"d1a">>},
     ai_scores |-> {None, Some(8000)},
     ai_obs |-> {0},
     mock |-> {},
     mock_draws |-> {},
     db_ok |-> {TRUE},
     teacher_inputs |-> {Ann},
     selection_inputs |->
        {[framework_type |-> "marshall", selected_elements |-> <<"d1a">>]},
     upload_for |-> 1..MaxTeachers,
     date_ranges |-> {NoDates},
     one_at_a_time |-> TRUE]

\* the documents a user has created
OwnDocuments(user) ==
    [selection |-> selection[user],
     teachers |-> SelectList(teachers,
                     [i \in 1..Len(teachers) |-> teachers[i].created_by = user]),
     videos |-> SelectList(videos,
                     [i \in 1..Len(videos) |-> videos[i].uploaded_by = user]),
     assessments |-> SelectList(assessments,
                     [i \in 1..Len(assessments) |-> assessments[i].user_id = user])]

\* what the five reading endpoints answer the user, for every teacher id
ResultsFor(user) ==
    [roster |-> RosterResponse(user, NoDates),
     dashboard |-> [id \in 1..MaxTeachers |-> DashboardResponse(user, id, NoDates)],
     assessments |-> [id \in 0..MaxTeachers |->
                        AssessmentsResponse(user, IF id = 0 THEN None ELSE Some(id))],
     insights |-> [id \in 1..MaxTeachers |-> InsightsResponse(user, id)],
     peers |-> [id \in 1..MaxTeachers |-> PeerResponse(user, id)]]

\* a user's client reloads every page: GET /roster, and for every teacher id
\* GET /assessments, the dashboard, the summary insights and the peer
\* recommendations; the client keeps the answers
read_all(user) ==
    /\ resp' = [kind |-> "all", user |-> user, results |-> ResultsFor(user)]
    /\ held' = Some([user |-> user, at |-> clock, own |-> OwnDocuments(user),
                     results |-> ResultsFor(user)])
    /\ UNCHANGED dbVars
    /\ UNCHANGED <<levelVars, narrVars, authVars>>

NextTenants ==
    \/ \E u \in AllUsers \ Users, sel \in TenantInputs.selection_inputs :
          save_framework_selection(u, sel.framework_type, sel.selected_elements)
    \/ \E u \in AllUsers, t \in TenantInputs.teacher_inputs : create_teacher(u, t)
    \/ \E u \in AllUsers, id \in TenantInputs.upload_for :
          /\ TasksIdle
          /\ upload_video(u, id, "ok")
    \/ \E u \in AllUsers, id \in 1..MaxTeachers : delete_teacher(u, id)
    \/ NextAnalysis(TenantInputs)
    \/ \E u \in Users : read_all(u)

SpecTenants == Init /\ [][NextTenants]_vars

\* POST /auth/register.  The handler awaits twice, at the find_one of line
\* 412 and at the insert_one of line 424, and other requests run in between:
\* it is two steps.  No index of db.users is declared anywhere in the
\* source, so insert_one accepts any document.
MaxRegistrations == 3

Emails == {"ann@school.edu", "bob@school.edu"}

\* lines 412-414: the request arrives and looks its email up
register_check(email) ==
    /\ Len(registrations) < MaxRegistrations
    /\ LET existing == \E i \in 1..Len(users) : users[i].email = email
       IN  IF existing
           THEN /\ registrations' = Append(registrations, [email |-> email, pc |-> "rejected"])
                /\ resp' = HttpError(400, "Email already registered")
           ELSE /\ registrations' = Append(registrations, [email |-> email, pc |-> "insert"])
                /\ resp' = NoResponse
    /\ UNCHANGED users
    /\ UNCHANGED dbVars
    /\ UNCHANGED <<levelVars, narrVars, clientVars>>

\* lines 416-435: the user document is stored and the token is returned;
\* request r draws the r-th uuid4
register_insert(r) ==
    /\ r \in 1..Len(registrations)
    /\ registrations[r].pc = "insert"
    /\ users' = Append(users, [id |-> r, email |-> registrations[r].email])
    /\ registrations' = [registrations EXCEPT ![r].pc = "registered"]
    /\ resp' = [kind |-> "token", user_id |-> r, email |-> registrations[r].email]
    /\ UNCHANGED dbVars
    /\ UNCHANGED <<levelVars, narrVars, clientVars>>

NextRegister ==
    \/ \E email \in Emails : register_check(email)
    \/ \E r \in 1..MaxRegistrations : register_insert(r)

SpecRegister == Init /\ [][NextRegister]_vars

\* Uploads and their analyses when things fail: the model's answer may lack
\* a score, every database write and the removal of the file may raise, and
\* videos are analysed concurrently.
VideoInputs ==
    [ai_lists |-> {<<"d1a">>},
     ai_scores |-> {None, Some(7000)},
     ai_obs |-> {0},
     mock |-> {},
     mock_draws |-> {},
     db_ok |-> {TRUE, FALSE},
     teacher_inputs |-> {Ann},
     upload_for |-> {1},
     date_ranges |-> {NoDates},
     one_at_a_time |-> FALSE]

NextVideo ==
    \/ \E u \in Users, id \in 1..MaxTeachers : delete_teacher(u, id)
    \/ NextTeachers(VideoInputs)
    \/ NextAnalysis(VideoInputs)

SpecVideo == Init /\ [][NextVideo]_vars

---------------------------------------------------------------------------
(* Peer recommendations over a populated database.  The database starts as *)
(* create_teacher, upload_video and the analysis leave it after a user has *)
(* added some teachers and every uploaded video has been analysed by the   *)
(* AI model; a teacher's profile is the subject and, per video, the scores *)
(* of the model's answer for the elements d1a, d1b, d1c, d1d.              *)

MaxPool == 3
MaxRankPool == 5

PoolIds == <<"d1a", "d1b", "d1c", "d1d">>

\* the model's answer that scores the i-th pool element s[i]; None leaves
\* the element out
Answer(s) ==
    LET given == SelectList([i \in 1..Len(s) |-> i], [i \in 1..Len(s) |-> s[i] # None])
    IN  [k \in 1..Len(given) |->
            [element_id |-> PoolIds[given[k]], score |-> s[given[k]], nobs |-> 0]]

PeerProfiles ==
    { [subject |-> "History", answers |-> <<>>],
      [subject |-> "History", answers |-> <<Answer(<<>>)>>],
      [subject |-> "History", answers |-> <<Answer(<<Some(4000)>>)>>],
      [subject |-> "History", answers |-> <<Answer(<<Some(0)>>)>>],
      [subject |-> "Biology", answers |-> <<Answer(<<Some(11000)>>)>>],
      [subject |-> "History",
       answers |-> <<Answer(<<Some(4000), Some(5000), Some(3000), Some(2000)>>)>>],
      [subject |-> "History",
       answers |-> <<Answer(<<Some(8000), Some(7000), Some(8000), Some(7000)>>)>>],
      [subject |-> "history", answers |-> <<Answer(<<Some(6000), Some(9000)>>)>>],
      [subject |-> "Biology",
       answers |-> <<Answer(<<Some(4000)>>), Answer(<<Some(7000), Some(8000)>>)>>] }

RankProfiles ==
    { [subject |-> "History", answers |-> <<Answer(<<Some(4000)>>)>>],
      [subject |-> "History", answers |-> <<Answer(<<Some(7000)>>)>>],
      [subject |-> "History", answers |-> <<Answer(<<Some(8000)>>)>>],
      [subject |-> "History", answers |-> <<Answer(<<Some(9000)>>)>>] }

\* the analyses of the pool's videos, in the order they ran
PoolRuns(profiles) ==
    LET F[i \in 0..Len(profiles)] ==
            IF i = 0 THEN <<>>
            ELSE F[i - 1] \o [k \in 1..Len(profiles[i].answers) |->
                                 [teacher_id |-> i, answer |-> profiles[i].answers[k]]]
    IN  F[Len(profiles)]

\* the assessment the k-th analysis stored (AnalyzeRun at clock k - 1 with
\* no saved selection)
PoolDoc(user, runs, k) ==
    LET element_scores == analyze_frames_with_ai(FrameworkOf("danielson"), <<>>,
                              [kind |-> "ai", element_scores |-> AIAnswer(k, runs[k].answer)],
                              <<>>)
    IN  AssessmentDoc(k, k, runs[k].teacher_id, user, "danielson", element_scores,
                      OverallNumber(ValidScores(element_scores)), k)

InitPool(profile_set, max) ==
    /\ InitLevelIdle
    /\ InitNarrIdle
    /\ \E user \in Users, n \in 0..max :
       \E profiles \in [1..n -> profile_set] :
          LET runs == PoolRuns(profiles)
              docs == [k \in 1..Len(runs) |-> PoolDoc(user, runs, k)]
          IN  /\ selection = [u \in AllUsers |-> None]
              /\ teachers = [i \in 1..n |->
                     [id |-> i, name |-> "Teacher " \o ToString(i),
                      email |-> "t" \o ToString(i) \o "@school.edu",
                      subject |-> profiles[i].subject, created_by |-> user]]
              /\ teacher_count = n
              /\ videos = [k \in 1..Len(runs) |->
                     [id |-> k, teacher_id |-> runs[k].teacher_id, uploaded_by |-> user,
                      status |-> "completed", assessment_id |-> Some(k)]]
              /\ tasks = [k \in 1..Len(runs) |->
                     Task("done", k, runs[k].teacher_id, user, Some(docs[k]))]
              /\ files = {}
              /\ assessments = docs
              /\ clock = Len(runs)
              /\ resp = NoResponse
              /\ users = <<>>
              /\ registrations = <<>>
              /\ held = None

NextPeerPool ==
    \E u \in Users, id \in 1..MaxPool : get_peer_recommendations(u, id)

SpecPeers == InitPool(PeerProfiles, MaxPool) /\ [][NextPeerPool]_vars

NextRankPool ==
    \E u \in Users, id \in 1..MaxRankPool : get_peer_recommendations(u, id)

SpecRank == InitPool(RankProfiles, MaxRankPool) /\ [][NextRankPool]_vars

---------------------------------------------------------------------------
(* The banding function on its own: every score from -1 to 12 in steps of  *)
(* a tenth, and every mean of up to MaxDen such scores.                    *)

LevelScores ==
    {Frac(100 * k, d) : k \in (-10 * MaxDen)..(120 * MaxDen), d \in 1..MaxDen}

InitLevel ==
    /\ lvl_score \in LevelScores
    /\ lvl_out = "none"
    /\ InitNarrIdle
    /\ InitSys

CallLevel ==
    /\ lvl_out = "none"
    /\ lvl_out' = get_performance_level(lvl_score)
    /\ UNCHANGED <<lvl_score, narrVars, sysVars>>

\* the next call is made with the score a tenth higher
NextScore ==
    /\ lvl_out # "none"
    /\ Frac(lvl_score.n + 100, lvl_score.d) \in LevelScores
    /\ lvl_score' = Frac(lvl_score.n + 100, lvl_score.d)
    /\ lvl_out' = "none"
    /\ UNCHANGED <<narrVars, sysVars>>

NextLevel == CallLevel \/ NextScore

SpecLevel == InitLevel /\ [][NextLevel]_vars

---------------------------------------------------------------------------
(* The two mappings side by side over the same scores *)

CallLegacy ==
    /\ lvl_out = "none"
    /\ lvl_out' = test_get_performance_level(lvl_score)
    /\ UNCHANGED <<lvl_score, narrVars, sysVars>>

NextLegacy == CallLegacy \/ CallLevel \/ NextScore

SpecLegacy == InitLevel /\ [][NextLegacy]_vars

LegacyLevels == {"Distinguished", "Proficient", "Basic", "Unsatisfactory"}

---------------------------------------------------------------------------
(* The narrative generator on its own: element score lists of up to        *)
(* MaxNarr entries, the i-th named after the i-th Danielson element.       *)

\* the scores an entry may carry; None is a dict without the "score" key
NarrScores == {None, Some(1000), Some(2000), Some(2500), Some(3000), Some(4000)}

NarrElement(i, sc) ==
    LET e == AllElements(DANIELSON_FRAMEWORK)[i]
    IN  [element_id |-> e.id, element_name |-> e.name, score |-> sc]

InitNarr ==
    /\ InitLevelIdle
    /\ InitNarrIdle
    /\ InitSys

AddElement ==
    /\ narr_out = <<"none">>
    /\ Len(narr_in) < MaxNarr
    /\ \E sc \in NarrScores :
          narr_in' = Append(narr_in, NarrElement(Len(narr_in) + 1, sc))
    /\ UNCHANGED <<levelVars, narr_out, sysVars>>

CallRecommend ==
    /\ narr_out = <<"none">>
    /\ narr_out' = generate_recommendations(narr_in)
    /\ UNCHANGED <<levelVars, narr_in, sysVars>>

NextNarr == AddElement \/ CallRecommend

SpecNarr == InitNarr /\ [][NextNarr]_vars

\* C10: generate_recommendations returns between 1 and 3 entries, and returns
\* exactly the single default congratulatory entry if and only if no input
\* element has a score < 3 (an element without a score counts as 0).
C10_RecommendationCount ==
    narr_out # <<"none">> =>
        /\ Len(narr_out) \in 1..3
        /\ (narr_out = <<DefaultRecommendation>>) <=>
              (\A i \in 1..Len(narr_in) :
                  narr_in[i].score # None /\ narr_in[i].score[1] >= 3000)

\* more than three elements score below 3 and three entries came back
C10_Witness ==
    /\ narr_out # <<"none">>
    /\ Cardinality({i \in 1..Len(narr_in) : GetScore(narr_in[i]) < 3000}) > 3
    /\ Len(narr_out) = 3
    /\ narr_out[1] # DefaultRecommendation

\* the input elements generate_recommendations is about: score < 3
LowIndices == {i \in 1..Len(narr_in) : GetScore(narr_in[i]) < 3000}

\* the place of a low element among the low ones: lower scores first, equal
\* scores in input order
LowRank(i) ==
    1 + Cardinality({m \in LowIndices :
            \/ GetScore(narr_in[m]) < GetScore(narr_in[i])
            \/ GetScore(narr_in[m]) = GetScore(narr_in[i]) /\ m < i})

\* the two texts that name an element
NamesElement(text, name) ==
    \/ text = "Priority: Focus on improving " \o name
              \o ". Consider mentorship or targeted professional development."
    \/ text = "Continue developing skills in " \o name
              \o ". Review best practices and observe peer teachers."

\* C11: the entries generate_recommendations returns name the (up to) three
\* lowest-scoring elements among those with score < 3, worst first, and
\* elements with equal scores come in their input order.
C11_LowestThreeInOrder ==
    (narr_out # <<"none">> /\ LowIndices # {}) =>
        /\ Len(narr_out) = Min(3, Cardinality(LowIndices))
        /\ \A i \in LowIndices :
              LowRank(i) <= 3 =>
                  NamesElement(narr_out[LowRank(i)], narr_in[i].element_name)

\* four low elements, the first and third tied and the second and fourth tied
\* below them: the third entry names the first element, the third is cut
C11_Witness ==
    /\ narr_out # <<"none">>
    /\ Len(narr_in) = 4
    /\ LowIndices = 1..4
    /\ GetScore(narr_in[1]) = GetScore(narr_in[3])
    /\ GetScore(narr_in[2]) = GetScore(narr_in[4])
    /\ GetScore(narr_in[2]) < GetScore(narr_in[1])
    /\ Len(narr_out) = 3
    /\ NamesElement(narr_out[1], narr_in[2].element_name)
    /\ NamesElement(narr_out[2], narr_in[4].element_name)
    /\ NamesElement(narr_out[3], narr_in[1].element_name)

---------------------------------------------------------------------------
(* generate_summary on its own: the same element lists, and an overall     *)
(* score as analyze_video passes it, a rounded float or the int 0.         *)

SummaryOveralls == {IntNum(0), FloatNum(4250), FloatNum(5000), FloatNum(8000)}

CallSummary ==
    /\ narr_out = <<"none">>
    /\ \E overall_score \in SummaryOveralls :
          narr_out' = <<"summary", overall_score,
                        generate_summary(narr_in, overall_score)>>
    /\ UNCHANGED <<levelVars, narr_in, sysVars>>

NextSummary == AddElement \/ CallSummary

SpecSummary == InitNarr /\ [][NextSummary]_vars

\* the names of the first three elements, in input order, whose index is in S
FirstThreeNames(S) ==
    LET at(j) == CHOOSE i \in S : Cardinality({m \in S : m < i}) = j - 1
    IN  [j \in 1..Min(3, Cardinality(S)) |-> narr_in[at(j)].element_name]

\* a section of the summary: omitted when no element qualifies
Section(title, S) ==
    IF S = {} THEN "" ELSE " " \o title \o ": " \o Join(FirstThreeNames(S)) \o "."

OpeningSentence(overall_score) ==
    "Overall performance: "
        \o TitleLevel(get_performance_level(Float(overall_score.v)))
        \o " (Score: " \o NumStr(overall_score) \o "/10)."

\* C12: generate_summary always emits the opening sentence, then the key
\* strengths (the first three names, in input order, with score >= 3) and the
\* growth areas (the first three with score < 2.5); a section nothing
\* qualifies for is left out, so an empty list gives the opening alone.
C12_SummarySections ==
    (Len(narr_out) = 3 /\ narr_out[1] = "summary") =>
        /\ narr_out[3] =
              OpeningSentence(narr_out[2])
              \o Section("Key strengths include",
                         {i \in 1..Len(narr_in) : GetScore(narr_in[i]) >= 3000})
              \o Section("Areas for professional growth",
                         {i \in 1..Len(narr_in) : GetScore(narr_in[i]) < 2500})
        /\ narr_in = <<>> => narr_out[3] = OpeningSentence(narr_out[2])

\* four elements, the second at 2.5 is neither a strength nor a growth area,
\* the others are strengths: one section only
C12_Witness ==
    /\ Len(narr_out) = 3 /\ narr_out[1] = "summary"
    /\ Len(narr_in) = 4
    /\ GetScore(narr_in[2]) = 2500
    /\ \A i \in {1, 3, 4} : GetScore(narr_in[i]) >= 3000
    /\ narr_out[3] = OpeningSentence(narr_out[2])
          \o " Key strengths include: " \o narr_in[1].element_name \o ", "
          \o narr_in[3].element_name \o ", " \o narr_in[4].element_name \o "."

\* the empty list gives the opening sentence alone
C12_WitnessEmpty ==
    /\ Len(narr_out) = 3 /\ narr_out[1] = "summary"
    /\ narr_in = <<>>
    /\ narr_out[2] = IntNum(0)
    /\ narr_out[3] = "Overall performance: Critical (Score: 0/10)."

---------------------------------------------------------------------------
(* What the stored assessments say, stated over sets of positions: <<a, i>> *)
(* is the i-th element score of the a-th document of db.assessments.       *)

Positions ==
    UNION {{<<a, i>> : i \in 1..Len(assessments[a].element_scores)} :
              a \in 1..Len(assessments)}

ScoreAt(p) == assessments[p[1]].element_scores[p[2]]

InDates(a, dates) ==
    (dates.start_date # None /\ dates.end_date # None)
       => /\ assessments[a].analyzed_at >= dates.start_date[1]
          /\ assessments[a].analyzed_at <= dates.end_date[1]

\* the element scores of a teacher's assessments, and those of one element
TeacherScores(user, teacher_id, dates) ==
    {p \in Positions : /\ assessments[p[1]].user_id = user
                       /\ assessments[p[1]].teacher_id = teacher_id
                       /\ InDates(p[1], dates)}

GroupOf(user, teacher_id, dates, element_id) ==
    {p \in TeacherScores(user, teacher_id, dates) : ScoreAt(p).element_id = element_id}

ScoredIds(user, teacher_id, dates) ==
    {ScoreAt(p).element_id : p \in TeacherScores(user, teacher_id, dates)}

RECURSIVE SumAt(_)
SumAt(P) ==
    IF P = {} THEN 0
    ELSE LET p == CHOOSE q \in P : TRUE IN ScoreAt(p).score[1] + SumAt(P \ {p})

\* the arithmetic mean of the scores at the positions P, a fraction
ExactMean(P) == Frac(SumAt(P), Cardinality(P))

FracEq(a, b) == a.n * b.d = b.n * a.d

---------------------------------------------------------------------------
(* Peer recommendations *)

\* the weak areas get_peer_recommendations works with for a target teacher
WeakAreasOf(user, teacher_id) ==
    WeakAreas(ElementAverages(ScoresByElement(FlattenScores(
        LatestAssessments(teacher_id, user, 10)))))

TargetMean(user, teacher_id, id) == ExactMean(GroupOf(user, teacher_id, NoDates, id))

\* position p is read before position q: later assessments first, an
\* assessment's element scores in their order
ReadBefore(p, q) ==
    \/ assessments[p[1]].analyzed_at > assessments[q[1]].analyzed_at
    \/ assessments[p[1]].analyzed_at = assessments[q[1]].analyzed_at /\ p[1] < q[1]
    \/ p[1] = q[1] /\ p[2] < q[2]

\* key order: element id1 is first met before element id2
KeyBefore(user, teacher_id, id1, id2) ==
    \E p \in GroupOf(user, teacher_id, NoDates, id1) :
       \A q \in GroupOf(user, teacher_id, NoDates, id2) : ReadBefore(p, q)

\* the place of an element among the target's, lowest mean first, equal
\* means in key order
MeanRank(user, teacher_id, id) ==
    1 + Cardinality({id2 \in ScoredIds(user, teacher_id, NoDates) :
            \/ FracLt(FracSub(TargetMean(user, teacher_id, id2),
                              TargetMean(user, teacher_id, id)), 0)
            \/ /\ FracEq(TargetMean(user, teacher_id, id2), TargetMean(user, teacher_id, id))
               /\ id2 # id
               /\ KeyBefore(user, teacher_id, id2, id)})

\* the target's element ids whose mean is below 6
BelowSix(user, teacher_id) ==
    {id \in ScoredIds(user, teacher_id, NoDates) :
        FracLt(TargetMean(user, teacher_id, id), Pt(6))}

\* C13: the weak areas are exactly the target's element ids whose average is
\* < 6; when none is below 6 they are the three elements with the lowest
\* averages (ascending, ties in key order), or all of them when the target
\* has fewer than three.  A strength is always one of the weak areas.
C13_WeakAreas ==
    (resp.kind = "peers" /\ FindAssessments(resp.teacher_id, resp.user, NoDates) # <<>>) =>
        LET weak_areas == WeakAreasOf(resp.user, resp.teacher_id)
            ids == ScoredIds(resp.user, resp.teacher_id, NoDates)
            below == BelowSix(resp.user, resp.teacher_id)
        IN  /\ below # {} =>
                  /\ {weak_areas[k] : k \in 1..Len(weak_areas)} = below
                  /\ Len(weak_areas) = Cardinality(below)
            /\ below = {} =>
                  /\ Len(weak_areas) = Min(3, Cardinality(ids))
                  /\ \A id \in ids :
                        MeanRank(resp.user, resp.teacher_id, id) <= 3
                           => weak_areas[MeanRank(resp.user, resp.teacher_id, id)] = id
            /\ \A r \in 1..Len(resp.recommendations) :
                  \A k \in 1..Len(resp.recommendations[r].strengths) :
                     \E w \in 1..Len(weak_areas) :
                        weak_areas[w] = resp.recommendations[r].strengths[k].element_id

\* a target with the averages 8, 7, 8, 7, none below 6: the weak areas are
\* the two sevens in key order and then the first eight
C13_Witness ==
    /\ resp.kind = "peers"
    /\ FindAssessments(resp.teacher_id, resp.user, NoDates) # <<>>
    /\ Cardinality(ScoredIds(resp.user, resp.teacher_id, NoDates)) = 4
    /\ BelowSix(resp.user, resp.teacher_id) = {}
    /\ WeakAreasOf(resp.user, resp.teacher_id) = <<"d1b", "d1d", "d1a">>
    /\ resp.recommendations # <<>>

\* a target with four averages below 6: all four are weak areas
C13_WitnessBelow ==
    /\ resp.kind = "peers"
    /\ Cardinality(BelowSix(resp.user, resp.teacher_id)) = 4
    /\ Len(WeakAreasOf(resp.user, resp.teacher_id)) = 4
    /\ resp.recommendations # <<>>

\* the target's weak areas as a set, from the stored scores
ExpectedWeak(user, teacher_id) ==
    IF BelowSix(user, teacher_id) # {} THEN BelowSix(user, teacher_id)
    ELSE {id \in ScoredIds(user, teacher_id, NoDates) : MeanRank(user, teacher_id, id) <= 3}

\* the weak areas of the target in which a peer is strong: the peer has
\* scores of the element and their mean is >= 7
ExpectedStrengths(user, teacher_id, peer_id) ==
    {id \in ExpectedWeak(user, teacher_id) :
        /\ GroupOf(user, peer_id, NoDates, id) # {}
        /\ FracGe(ExactMean(GroupOf(user, peer_id, NoDates, id)), Pt(7))}

\* C14: a peer is in the peer recommendations only if it has at least one
\* strength, a weak area of the target present in the peer's scores with a
\* peer average >= 7; a peer without assessments or without such an element
\* is never returned.
C14_OnlyPeersWithStrengths ==
    resp.kind = "peers" =>
        \A r \in 1..Len(resp.recommendations) :
           LET rec == resp.recommendations[r]
               expected == ExpectedStrengths(resp.user, resp.teacher_id, rec.peer_id)
           IN  /\ rec.peer_id # resp.teacher_id
               /\ FindAssessments(rec.peer_id, resp.user, NoDates) # <<>>
               /\ expected # {}
               /\ rec.strengths # <<>>
               /\ \A k \in 1..Len(rec.strengths) : rec.strengths[k].element_id \in expected

\* of two peers with assessments, one is strong in a weak area and is
\* returned, the other is strong in none and is left out
C14_Witness ==
    /\ resp.kind = "peers"
    /\ Len(resp.recommendations) = 1
    /\ \E i \in 1..Len(teachers) :
          /\ teachers[i].id # resp.teacher_id
          /\ teachers[i].id # resp.recommendations[1].peer_id
          /\ FindAssessments(teachers[i].id, resp.user, NoDates) # <<>>
          /\ ScoredIds(resp.user, teachers[i].id, NoDates) # {}
          /\ ExpectedStrengths(resp.user, resp.teacher_id, teachers[i].id) = {}

\* S: the sum over the element ids of (peer mean - target mean) / 10
RECURSIVE GainOver(_, _, _, _)
GainOver(ids, user, teacher_id, peer_id) ==
    IF ids = {} THEN Frac(0, 1)
    ELSE LET id == CHOOSE x \in ids : TRUE
         IN  FracAdd(FracDiv(FracSub(ExactMean(GroupOf(user, peer_id, NoDates, id)),
                                     TargetMean(user, teacher_id, id)), 10),
                     GainOver(ids \ {id}, user, teacher_id, peer_id))

\* min(1.0, S / W)
ExpectedMatch(user, teacher_id, peer_id) ==
    LET share == FracDiv(GainOver(ExpectedStrengths(user, teacher_id, peer_id),
                                  user, teacher_id, peer_id),
                         Cardinality(ExpectedWeak(user, teacher_id)))
    IN  IF FracGe(share, Pt(1)) THEN Float(Pt(1)) ELSE share

\* C15: for every returned peer, match_score = min(1.0, S / W), S the sum
\* over the peer's strengths of (peer average - target average) / 10 and W
\* the number of the target's weak areas; with one weak area at target
\* average 4 and a peer average of 8 the match_score is 0.4.
C15_MatchScore ==
    resp.kind = "peers" =>
        \A r \in 1..Len(resp.recommendations) :
           LET rec == resp.recommendations[r]
               weak == ExpectedWeak(resp.user, resp.teacher_id)
           IN  /\ FracEq(rec.match_score,
                         ExpectedMatch(resp.user, resp.teacher_id, rec.peer_id))
               /\ (\E id \in weak :
                      /\ weak = {id}
                      /\ FracEq(TargetMean(resp.user, resp.teacher_id, id), Float(4000))
                      /\ FracEq(ExactMean(GroupOf(resp.user, rec.peer_id, NoDates, id)),
                                Float(8000)))
                     => FracEq(rec.match_score, Float(400))

\* four weak areas and a peer strong in one of them, at 9 against the
\* target's 5: the match score is 0.4 / 4 = 0.1
C15_Witness ==
    /\ resp.kind = "peers"
    /\ Cardinality(ExpectedWeak(resp.user, resp.teacher_id)) = 4
    /\ \E r \in 1..Len(resp.recommendations) :
          /\ Cardinality(ExpectedStrengths(resp.user, resp.teacher_id,
                                          resp.recommendations[r].peer_id)) = 1
          /\ FracEq(resp.recommendations[r].match_score, Float(100))

\* the share is 1.1 (target 0, peer 11) and the match score is 1.0
C15_WitnessCapped ==
    /\ resp.kind = "peers"
    /\ \E r \in 1..Len(resp.recommendations) :
          /\ FracEq(GainOver(ExpectedStrengths(resp.user, resp.teacher_id,
                                               resp.recommendations[r].peer_id),
                             resp.user, resp.teacher_id, resp.recommendations[r].peer_id),
                    Float(1100))
          /\ Cardinality(ExpectedWeak(resp.user, resp.teacher_id)) = 1
          /\ FracEq(resp.recommendations[r].match_score, Float(1000))

\* one weak area at 4 and a peer at 8: 0.4
C15_WitnessScenario ==
    /\ resp.kind = "peers"
    /\ ExpectedWeak(resp.user, resp.teacher_id) = {"d1a"}
    /\ FracEq(TargetMean(resp.user, resp.teacher_id, "d1a"), Float(4000))
    /\ \E r \in 1..Len(resp.recommendations) :
          /\ FracEq(ExactMean(GroupOf(resp.user, resp.recommendations[r].peer_id,
                                     NoDates, "d1a")), Float(8000))
          /\ FracEq(resp.recommendations[r].match_score, Float(400))

\* the peers that qualify: the user's other teachers with a strength
EligiblePeers(user, teacher_id) ==
    {i \in 1..Len(teachers) :
        /\ teachers[i].created_by = user
        /\ teachers[i].id # teacher_id
        /\ ExpectedStrengths(user, teacher_id, teachers[i].id) # {}}

\* where a peer stands in the peer input order (the order of db.teachers)
PeerIndex(peer_id) == CHOOSE i \in 1..Len(teachers) : teachers[i].id = peer_id

\* peer i comes before peer j in the ordering: higher match score first,
\* equal match scores in input order
RanksBefore(user, teacher_id, i, j) ==
    LET mi == ExpectedMatch(user, teacher_id, teachers[i].id)
        mj == ExpectedMatch(user, teacher_id, teachers[j].id)
    IN  \/ FracLt(FracSub(mj, mi), 0)
        \/ FracEq(mi, mj) /\ i < j

\* C16: at most 3 peers are returned, ordered by match_score descending with
\* equal match_scores in peer input order, and they are the top of that
\* ordering: no omitted peer has a strictly higher match_score than a
\* returned one.
C16_TopThreeInOrder ==
    resp.kind = "peers" =>
        LET recs == resp.recommendations
            eligible == EligiblePeers(resp.user, resp.teacher_id)
            returned == {PeerIndex(recs[r].peer_id) : r \in 1..Len(recs)}
        IN  /\ Len(recs) <= 3
            /\ Len(recs) = Min(3, Cardinality(eligible))
            /\ Cardinality(returned) = Len(recs)
            /\ returned \subseteq eligible
            /\ \A r1, r2 \in 1..Len(recs) :
                  r1 < r2 =>
                     /\ ~FracLt(FracSub(recs[r1].match_score, recs[r2].match_score), 0)
                     /\ FracEq(recs[r1].match_score, recs[r2].match_score)
                           => PeerIndex(recs[r1].peer_id) < PeerIndex(recs[r2].peer_id)
            /\ \A j \in eligible \ returned :
                  \A r \in 1..Len(recs) :
                     /\ ~FracLt(FracSub(recs[r].match_score,
                                        ExpectedMatch(resp.user, resp.teacher_id,
                                                      teachers[j].id)), 0)
                     /\ RanksBefore(resp.user, resp.teacher_id,
                                    PeerIndex(recs[r].peer_id), j)

\* four peers qualify: the best is not the first in input order, the next
\* two are tied and in input order, and the omitted one is tied with them
C16_Witness ==
    /\ resp.kind = "peers"
    /\ Cardinality(EligiblePeers(resp.user, resp.teacher_id)) = 4
    /\ Len(resp.recommendations) = 3
    /\ PeerIndex(resp.recommendations[1].peer_id) > PeerIndex(resp.recommendations[2].peer_id)
    /\ FracLt(FracSub(resp.recommendations[2].match_score,
                      resp.recommendations[1].match_score), 0)
    /\ FracEq(resp.recommendations[2].match_score, resp.recommendations[3].match_score)
    /\ \E j \in EligiblePeers(resp.user, resp.teacher_id) :
          /\ \A r \in 1..3 : teachers[j].id # resp.recommendations[r].peer_id
          /\ FracEq(ExpectedMatch(resp.user, resp.teacher_id, teachers[j].id),
                    resp.recommendations[3].match_score)

\* the user's teachers other than the target
OtherTeachers(user, teacher_id) ==
    {i \in 1..Len(teachers) : teachers[i].created_by = user /\ teachers[i].id # teacher_id}

\* C17: when the target teacher has no assessments the recommendation list
\* is empty, without an error and before any query of the peer pool (the
\* other teachers or their assessments); the list is also empty when the
\* peer pool is empty or the target has no scored elements.  (Teacher ids
\* are 1..Len(teachers) here, so a 404 needs a teacher id beyond them.)
C17_EmptyRecommendations ==
    /\ resp.kind = "peers" =>
          /\ FindAssessments(resp.teacher_id, resp.user, NoDates) = <<>> =>
                /\ resp.recommendations = <<>>
                /\ resp.pool_queries = <<>>
          /\ OtherTeachers(resp.user, resp.teacher_id) = {} => resp.recommendations = <<>>
          /\ ScoredIds(resp.user, resp.teacher_id, NoDates) = {} => resp.recommendations = <<>>
    /\ resp.kind = "error" => Len(teachers) < MaxPool

\* a target without assessments whose peers have assessments and scores
C17_Witness ==
    /\ resp.kind = "peers"
    /\ FindAssessments(resp.teacher_id, resp.user, NoDates) = <<>>
    /\ Cardinality(OtherTeachers(resp.user, resp.teacher_id)) = 2
    /\ \A i \in OtherTeachers(resp.user, resp.teacher_id) :
          \E id \in ScoredIds(resp.user, teachers[i].id, NoDates) :
             FracGe(ExactMean(GroupOf(resp.user, teachers[i].id, NoDates, id)), Pt(7))
    /\ resp.recommendations = <<>>
    /\ resp.pool_queries = <<>>

\* a target with an assessment that has no element scores, next to a peer
\* with high scores: the pool is queried and nothing is recommended
C17_WitnessNoScores ==
    /\ resp.kind = "peers"
    /\ FindAssessments(resp.teacher_id, resp.user, NoDates) # <<>>
    /\ ScoredIds(resp.user, resp.teacher_id, NoDates) = {}
    /\ Len(resp.pool_queries) = 3
    /\ resp.recommendations = <<>>

\* a target with weak areas and no other teacher
C17_WitnessNoPool ==
    /\ resp.kind = "peers"
    /\ BelowSix(resp.user, resp.teacher_id) # {}
    /\ OtherTeachers(resp.user, resp.teacher_id) = {}
    /\ resp.pool_queries = <<"teachers">>
    /\ resp.recommendations = <<>>

SubjectOf(teacher_id) == teachers[PeerIndex(teacher_id)].subject

\* the name the target's scores give an element
TargetNames(user, teacher_id, id) ==
    {ScoreAt(p).element_name : p \in GroupOf(user, teacher_id, NoDates, id)}

\* C18: a recommendation's reason is "Strong in " followed by at most the
\* first two strength names joined by ", ", and it ends with
\* " (same subject area)" if and only if the peer's subject equals the
\* target teacher's subject exactly.
C18_Reason ==
    resp.kind = "peers" =>
        \A r \in 1..Len(resp.recommendations) :
           LET rec == resp.recommendations[r]
               names == IF Len(rec.strengths) = 1 THEN rec.strengths[1].name
                        ELSE rec.strengths[1].name \o ", " \o rec.strengths[2].name
               same == SubjectOf(rec.peer_id) = SubjectOf(resp.teacher_id)
           IN  /\ \A k \in 1..Len(rec.strengths) :
                     rec.strengths[k].name
                        \in TargetNames(resp.user, resp.teacher_id, rec.strengths[k].element_id)
               /\ same => rec.reason = "Strong in " \o names \o " (same subject area)"
               /\ ~same => rec.reason = "Strong in " \o names

\* a peer of the same subject with three listed strengths, of which the
\* reason names two, next to a peer whose subject differs in case only
C18_Witness ==
    /\ resp.kind = "peers"
    /\ SubjectOf(resp.teacher_id) = "History"
    /\ \E r1, r2 \in 1..Len(resp.recommendations) :
          /\ Len(resp.recommendations[r1].strengths) = 3
          /\ SubjectOf(resp.recommendations[r1].peer_id) = "History"
          /\ resp.recommendations[r1].reason =
                "Strong in Demonstrating Knowledge of Content and Pedagogy, Demonstrating Knowledge of Students (same subject area)"
          /\ SubjectOf(resp.recommendations[r2].peer_id) = "history"
          /\ resp.recommendations[r2].reason = "Strong in Demonstrating Knowledge of Students"

---------------------------------------------------------------------------
(* C2 *)

\* C2: any mean computed over zero scores yields null, never 0: the
\* overall_score analyze_video stores when no element score is valid, the
\* roster's per-element means and overall, the dashboard's per-element means
\* (no group is empty) and the summary-insights overall trend.
C2_EmptyMeanIsNull ==
    /\ \A a \in 1..Len(assessments) :
          (\A i \in 1..Len(assessments[a].element_scores) :
              assessments[a].element_scores[i].score[1] <= 0)
             => assessments[a].overall_score = None
    /\ resp.kind = "roster" =>
          \A e \in 1..Len(resp.roster) :
             LET entry == resp.roster[e]
                 Group(id) == GroupOf(resp.user, entry.teacher_id, resp.dates, id)
             IN  /\ \A k \in 1..Len(entry.element_scores) :
                       Group(entry.element_scores[k].key) = {}
                          => entry.element_scores[k].val.score = None
                 /\ (\A k \in 1..Len(entry.element_scores) :
                        Group(entry.element_scores[k].key) = {})
                       => entry.overall_score = None
    /\ resp.kind = "dashboard" =>
          \A k \in 1..Len(resp.element_summary) :
             resp.element_summary[k].assessment_count > 0
    /\ resp.kind = "insights" =>
          (TeacherScores(resp.user, resp.teacher_id, NoDates) = {}
              => resp.overall_trend_score = None)

---------------------------------------------------------------------------
(* C3 *)

\* C3 as stated: in every element summary of the dashboard and the roster,
\* the emitted level is get_performance_level of the mean emitted in that
\* summary (the mean rounded to 2 decimals).
C3_LevelOfEmittedMean ==
    /\ resp.kind = "dashboard" =>
          \A k \in 1..Len(resp.element_summary) :
             resp.element_summary[k].level =
                get_performance_level(Float(resp.element_summary[k].average_score))
    /\ resp.kind = "roster" =>
          \A e \in 1..Len(resp.roster) :
             \A k \in 1..Len(resp.roster[e].element_scores) :
                LET val == resp.roster[e].element_scores[k].val
                IN  val.score # None
                       => val.level = Some(get_performance_level(Float(val.score[1])))

\* C3, amended: the emitted level is get_performance_level of the exact
\* (unrounded) mean of the group's scores.
C3_LevelOfExactMean ==
    /\ resp.kind = "dashboard" =>
          \A k \in 1..Len(resp.element_summary) :
             resp.element_summary[k].level =
                get_performance_level(ExactMean(
                    GroupOf(resp.user, resp.teacher_id, resp.dates,
                            resp.element_summary[k].element_id)))
    /\ resp.kind = "roster" =>
          \A e \in 1..Len(resp.roster) :
             \A k \in 1..Len(resp.roster[e].element_scores) :
                LET item == resp.roster[e].element_scores[k]
                IN  item.val.score # None
                       => item.val.level = Some(get_performance_level(ExactMean(
                              GroupOf(resp.user, resp.roster[e].teacher_id, resp.dates,
                                      item.key))))

\* a dashboard reports an average of 8.0 with the level needs_improvement
C3_Witness ==
    /\ resp.kind = "dashboard"
    /\ \E k \in 1..Len(resp.element_summary) :
          /\ resp.element_summary[k].average_score = Pt(8)
          /\ resp.element_summary[k].level = "needs_improvement"

---------------------------------------------------------------------------
(* C4 *)

\* the sum of the exact means of the element ids in ids, a fraction
RECURSIVE SumOfMeans(_, _, _, _)
SumOfMeans(ids, user, teacher_id, dates) ==
    IF ids = {} THEN Frac(0, 1)
    ELSE LET id == CHOOSE x \in ids : TRUE
         IN  FracAdd(ExactMean(GroupOf(user, teacher_id, dates, id)),
                     SumOfMeans(ids \ {id}, user, teacher_id, dates))

\* the sum of the means of the element ids in ids, each rounded to 2 decimals
RECURSIVE SumOfRoundedMeans(_, _, _, _)
SumOfRoundedMeans(ids, user, teacher_id, dates) ==
    IF ids = {} THEN 0
    ELSE LET id == CHOOSE x \in ids : TRUE
         IN  Round2(ExactMean(GroupOf(user, teacher_id, dates, id)))
             + SumOfRoundedMeans(ids \ {id}, user, teacher_id, dates)

\* the mean of the per-element means of ids as a response may report it:
\* null without elements, else the mean of the exact means or of the means
\* as emitted (2 decimals), rounded to 2 decimals
MeanOfMeans(ids, user, teacher_id, dates) ==
    IF ids = {} THEN {None}
    ELSE {Some(Round2(FracDiv(SumOfMeans(ids, user, teacher_id, dates), Cardinality(ids)))),
          Some(Round2(Frac(SumOfRoundedMeans(ids, user, teacher_id, dates),
                           Cardinality(ids))))}

RosterScoredIds(entry) ==
    {entry.element_scores[k].key : k \in 1..Len(entry.element_scores)}
       \cap ScoredIds(resp.user, entry.teacher_id, resp.dates)

\* C4 as stated: the roster's overall_score and the summary-insights
\* overall_trend_score are the mean of the per-element means (each element
\* counts once), null when there are none.
C4_OverallIsMeanOfMeans ==
    /\ resp.kind = "roster" =>
          \A e \in 1..Len(resp.roster) :
             resp.roster[e].overall_score \in
                MeanOfMeans(RosterScoredIds(resp.roster[e]), resp.user,
                            resp.roster[e].teacher_id, resp.dates)
    /\ resp.kind = "insights" =>
          resp.overall_trend_score \in
             MeanOfMeans(ScoredIds(resp.user, resp.teacher_id, NoDates), resp.user,
                         resp.teacher_id, NoDates)

\* C4, amended: the roster's overall_score is the mean of the emitted
\* per-element means of the selected elements that have scores, rounded to 2
\* decimals; the summary-insights overall_trend_score is the mean of all
\* element scores of the teacher's assessments (each score counts once),
\* rounded to 2 decimals; both are null when there is no score.
C4_OverallAsComputed ==
    /\ resp.kind = "roster" =>
          \A e \in 1..Len(resp.roster) :
             LET ids == RosterScoredIds(resp.roster[e])
             IN  resp.roster[e].overall_score =
                    IF ids = {} THEN None
                    ELSE Some(Round2(Frac(
                            SumOfRoundedMeans(ids, resp.user, resp.roster[e].teacher_id,
                                              resp.dates),
                            Cardinality(ids))))
    /\ resp.kind = "insights" =>
          LET all == TeacherScores(resp.user, resp.teacher_id, NoDates)
          IN  resp.overall_trend_score =
                 IF all = {} THEN None ELSE Some(Round2(ExactMean(all)))

\* summary insights over elements with different numbers of scores, whose
\* trend score is not the mean of the per-element means
C4_Witness ==
    /\ resp.kind = "insights"
    /\ resp.overall_trend_score # None
    /\ Cardinality(ScoredIds(resp.user, resp.teacher_id, NoDates)) > 1
    /\ resp.overall_trend_score \notin
          MeanOfMeans(ScoredIds(resp.user, resp.teacher_id, NoDates), resp.user,
                      resp.teacher_id, NoDates)

---------------------------------------------------------------------------
(* C7 *)

\* the target's weak areas when it has at most three scored elements: the
\* elements averaging below 6, or all of them when there is none
WeakIds(user, teacher_id) ==
    LET ids == ScoredIds(user, teacher_id, NoDates)
        below == {id \in ids : FracLt(ExactMean(GroupOf(user, teacher_id, NoDates, id)), Pt(6))}
    IN  IF below # {} THEN below ELSE ids

\* the sum over the strengths of (peer mean - target mean) / 10
RECURSIVE StrengthGain(_, _, _, _)
StrengthGain(strengths, user, peer_id, teacher_id) ==
    IF strengths = <<>> THEN Frac(0, 1)
    ELSE FracAdd(
            FracDiv(FracSub(
                ExactMean(GroupOf(user, peer_id, NoDates, Head(strengths).element_id)),
                ExactMean(GroupOf(user, teacher_id, NoDates, Head(strengths).element_id))),
                10),
            StrengthGain(Tail(strengths), user, peer_id, teacher_id))

\* C7: the dashboard has one element summary per element id of the
\* teacher's assessments, over exactly the scores of that id: its count is
\* their number and its average their arithmetic mean (to 2 decimals); in a
\* peer recommendation a strength's score is the mean of exactly the peer's
\* scores of that element (to 1 decimal) and the match score is built from
\* the means of exactly the peer's and the target's scores of the strengths.
C7_GroupMeans ==
    /\ resp.kind = "dashboard" =>
          LET ids == ScoredIds(resp.user, resp.teacher_id, resp.dates)
              Group(id) == GroupOf(resp.user, resp.teacher_id, resp.dates, id)
          IN  /\ Len(resp.element_summary) = Cardinality(ids)
              /\ {resp.element_summary[k].element_id : k \in 1..Len(resp.element_summary)} = ids
              /\ \A k \in 1..Len(resp.element_summary) :
                    LET es == resp.element_summary[k]
                    IN  /\ es.assessment_count = Cardinality(Group(es.element_id))
                        /\ es.average_score = Round2(ExactMean(Group(es.element_id)))
    /\ resp.kind = "peers" =>
          \A r \in 1..Len(resp.recommendations) :
             LET rec == resp.recommendations[r]
                 weak == WeakIds(resp.user, resp.teacher_id)
                 share == FracDiv(StrengthGain(rec.strengths, resp.user, rec.peer_id,
                                               resp.teacher_id),
                                  Cardinality(weak))
             IN  /\ \A k \in 1..Len(rec.strengths) :
                       LET peers == GroupOf(resp.user, rec.peer_id, NoDates,
                                            rec.strengths[k].element_id)
                       IN  /\ peers # {}
                           /\ rec.strengths[k].score = Round1(ExactMean(peers))
                 /\ Cardinality(ScoredIds(resp.user, resp.teacher_id, NoDates)) <= 3
                       => FracEq(rec.match_score,
                                 IF FracGe(share, Pt(1)) THEN Float(Pt(1)) ELSE share)

\* a peer is recommended for an element of which the peer and the target
\* both have two scores, next to scores of another element
C7_Witness ==
    /\ resp.kind = "peers"
    /\ \E r \in 1..Len(resp.recommendations) :
          \E k \in 1..Len(resp.recommendations[r].strengths) :
             LET id == resp.recommendations[r].strengths[k].element_id
                 peer_id == resp.recommendations[r].peer_id
             IN  /\ Cardinality(GroupOf(resp.user, peer_id, NoDates, id)) = 2
                 /\ Cardinality(GroupOf(resp.user, resp.teacher_id, NoDates, id)) = 2
                 /\ Cardinality(ScoredIds(resp.user, peer_id, NoDates)) = 2
                 /\ Cardinality(ScoredIds(resp.user, resp.teacher_id, NoDates)) = 2

\* a dashboard with two element summaries, one over two scores
C7_WitnessDashboard ==
    /\ resp.kind = "dashboard"
    /\ Len(resp.element_summary) = 2
    /\ \E k \in 1..2 : resp.element_summary[k].assessment_count = 2
    /\ \E k \in 1..2 : resp.element_summary[k].assessment_count = 1

---------------------------------------------------------------------------
(* C8 *)

\* the sum of the non-null scores of a roster entry's element_scores
RECURSIVE SumPresent(_)
SumPresent(items) ==
    IF items = <<>> THEN 0
    ELSE (IF Head(items).val.score = None THEN 0 ELSE Head(items).val.score[1])
         + SumPresent(Tail(items))

\* C8: a roster entry has one item per selected element; an element without
\* contributing scores has a null score and a null level, one with scores
\* its mean; the overall score is the mean of the non-null element means
\* only, and null when every selected element is null.
C8_RosterNulls ==
    resp.kind = "roster" =>
       \A e \in 1..Len(resp.roster) :
          LET entry == resp.roster[e]
              items == entry.element_scores
              present == {k \in 1..Len(items) : items[k].val.score # None}
          IN  /\ {items[k].key : k \in 1..Len(items)}
                    = {resp.selected_elements[k] : k \in 1..Len(resp.selected_elements)}
              /\ \A k, k2 \in 1..Len(items) : items[k].key = items[k2].key => k = k2
              /\ \A k \in 1..Len(items) :
                    LET group == GroupOf(resp.user, entry.teacher_id, resp.dates, items[k].key)
                    IN  IF group = {}
                        THEN items[k].val.score = None /\ items[k].val.level = None
                        ELSE /\ items[k].val.score = Some(Round2(ExactMean(group)))
                             /\ items[k].val.level # None
              /\ entry.overall_score =
                    IF present = {} THEN None
                    ELSE Some(Round2(Frac(SumPresent(items), Cardinality(present))))

\* a roster with a teacher who has a score for one selected element and
\* none for another, and a teacher all of whose selected elements are null
C8_Witness ==
    /\ resp.kind = "roster"
    /\ \E e \in 1..Len(resp.roster) :
          LET items == resp.roster[e].element_scores
          IN  /\ \E k \in 1..Len(items) : items[k].val.score = None
              /\ \E k \in 1..Len(items) : items[k].val.score # None
              /\ resp.roster[e].overall_score # None
    /\ \E e \in 1..Len(resp.roster) :
          /\ resp.roster[e].element_scores # <<>>
          /\ resp.roster[e].overall_score = None

---------------------------------------------------------------------------
(* C5 and C6 *)

\* C5: every stored element score is on the 1-10 gradient: none is a value
\* the AI model gave on the 1-4 scale it was asked for.
C5_StoredScoresOnGradient ==
    \A p \in Positions : ScoreAt(p).scale = "1-10"

\* C6: in every stored assessment each element score's level is
\* get_performance_level of its score.
C6_StoredLevelFromScore ==
    \A p \in Positions :
       ScoreAt(p).level = get_performance_level(Float(ScoreAt(p).score[1]))

\* assessments stored by the three paths: seeded, from the AI model's
\* answer and from mock scores
C6_Witness ==
    /\ \E p \in Positions : assessments[p[1]].video_id < 0
    /\ \E p \in Positions : ScoreAt(p).scale = "1-4"
    /\ \E p \in Positions :
          assessments[p[1]].video_id > 0 /\ ScoreAt(p).scale = "1-10"

---------------------------------------------------------------------------
(* C9 *)

\* the observations of the element scores at the positions P, those of the
\* assessment analysed first (and in it, of the element score listed first)
\* first
RECURSIVE ObservationsInOrder(_)
ObservationsInOrder(P) ==
    IF P = {} THEN <<>>
    ELSE LET first == CHOOSE p \in P : \A q \in P :
                         \/ assessments[p[1]].analyzed_at < assessments[q[1]].analyzed_at
                         \/ (p[1] = q[1] /\ p[2] <= q[2])
         IN  (IF ScoreAt(first).observations = None THEN <<>>
              ELSE ScoreAt(first).observations[1])
             \o ObservationsInOrder(P \ {first})

\* C9: in the dashboard an element's recent_observations are the last 5 of
\* the concatenated observation lists of its scores in arrival order, all
\* of them when there are 5 or fewer.
C9_RecentObservations ==
    resp.kind = "dashboard" =>
       \A k \in 1..Len(resp.element_summary) :
          LET all == ObservationsInOrder(
                         GroupOf(resp.user, resp.teacher_id, resp.dates,
                                 resp.element_summary[k].element_id))
              recent == resp.element_summary[k].recent_observations
          IN  IF Len(all) <= 5 THEN recent = all
              ELSE /\ Len(recent) = 5
                   /\ \A j \in 1..5 : recent[j] = all[Len(all) - 5 + j]

\* a dashboard over two assessments stored in the reverse of the order they
\* were analysed in, with six observations of an element
C9_Witness ==
    /\ resp.kind = "dashboard"
    /\ Len(assessments) = 2
    /\ assessments[1].analyzed_at > assessments[2].analyzed_at
    /\ \E k \in 1..Len(resp.element_summary) :
          /\ Len(resp.element_summary[k].recent_observations) = 5
          /\ Len(ObservationsInOrder(
                    GroupOf(resp.user, resp.teacher_id, resp.dates,
                            resp.element_summary[k].element_id))) = 6

---------------------------------------------------------------------------
(* C19, C20 *)

\* every stored assessment is still stored, at its place and unchanged
AssessmentsKept ==
    /\ Len(assessments') >= Len(assessments)
    /\ \A a \in 1..Len(assessments) : assessments'[a] = assessments[a]

\* C19: a stored assessment is never changed or deleted after it is inserted:
\* no endpoint or background task (teacher deletion, video status updates,
\* roster, dashboard, summary-insights and peer recommendations included)
\* modifies a field of an existing assessment or its element scores.
C19_AssessmentsImmutable == [][AssessmentsKept]_vars

\* a teacher has just been deleted and an assessment of that teacher is
\* still stored
C19_Witness ==
    /\ resp = Message("Teacher deleted")
    /\ \E a \in 1..Len(assessments) :
          /\ assessments[a].element_scores # <<>>
          /\ \A i \in 1..Len(teachers) : teachers[i].id # assessments[a].teacher_id

\* C20: under any interleaving of concurrent uploads and background analysis
\* tasks, at most one assessment is ever written for a given video_id.
C20_OneAssessmentPerVideo ==
    \A a1, a2 \in 1..Len(assessments) :
        assessments[a1].video_id = assessments[a2].video_id => a1 = a2

\* two analyses in flight at once, both past their insert
C20_Witness ==
    /\ Len(tasks) = 2
    /\ tasks[1].pc = "update"
    /\ tasks[2].pc = "update"
    /\ Len(assessments) = 2
    /\ assessments[1].video_id # assessments[2].video_id

---------------------------------------------------------------------------
(* C21 *)

\* the ids of the elements of a list of domains, in order
DomainElementIds(domains) ==
    LET all == AllElements([domains |-> domains])
    IN  [i \in 1..Len(all) |-> all[i].id]

\* the tracked element ids in the order Danielson, then Marshall
CombinedTrackedIds ==
    LET ids == DomainElementIds(DANIELSON_FRAMEWORK.domains)
               \o DomainElementIds(MARSHALL_FRAMEWORK.domains)
    IN  SelectList(ids, [i \in 1..Len(ids) |-> ids[i] \in TrackedIds])

AssessmentIds(a) ==
    [i \in 1..Len(assessments[a].element_scores) |->
        assessments[a].element_scores[i].element_id]

\* C21: the custom framework is the Danielson domains followed by the
\* Marshall domains (10 domains, nothing added, dropped or reordered), both
\* where the framework details are served and where the analysis selects
\* elements, and no element id occurs more than once in the combined catalog.
C21_CustomFramework ==
    /\ (resp.kind = "framework" /\ resp.framework_type = "custom") =>
          LET ids == DomainElementIds(resp.body.domains)
          IN  /\ resp.body.domains = DANIELSON_FRAMEWORK.domains \o MARSHALL_FRAMEWORK.domains
              /\ Len(resp.body.domains) = 10
              /\ [i \in 1..10 |-> resp.body.domains[i].id]
                    = <<"d1", "d2", "d3", "d4", "m1", "m2", "m3", "m4", "m5", "m6">>
              /\ Cardinality({ids[i] : i \in 1..Len(ids)}) = Len(ids)
    /\ \A a \in 1..Len(assessments) :
          assessments[a].framework_type = "custom" =>
             \/ AssessmentIds(a) = CombinedTrackedIds
             \/ AssessmentIds(a) = SelectList(CombinedTrackedIds,
                    [i \in 1..Len(CombinedTrackedIds) |->
                        CombinedTrackedIds[i] \in {"m1a", "d1a"}])

\* the custom details are served while an analysis under a custom selection
\* of every element is stored: Danielson elements first, then Marshall
C21_Witness ==
    /\ resp.kind = "framework"
    /\ resp.framework_type = "custom"
    /\ Len(DomainElementIds(resp.body.domains)) = 53
    /\ \E a \in 1..Len(assessments) :
          /\ assessments[a].framework_type = "custom"
          /\ AssessmentIds(a) = <<"d1a", "d1b", "m1a">>

---------------------------------------------------------------------------
(* C23 *)

\* C23: every peer recommendation returned has 0 <= match_score <= 1, also
\* when the weak areas come from the lowest-three fallback (all target
\* averages >= 6) and a peer's average in such an area is below the
\* target's average.
C23_MatchScoreInUnitRange ==
    resp.kind = "peers" =>
        \A r \in 1..Len(resp.recommendations) :
           /\ ~FracLt(resp.recommendations[r].match_score, 0)
           /\ ~FracLt(FracSub(Float(Pt(1)), resp.recommendations[r].match_score), 0)

---------------------------------------------------------------------------
(* C24 *)

\* C24: whenever an assessment contains at least one element whose level is
\* critical (score < 5), the recommendations generated for that assessment
\* are not the default "Excellent performance across all evaluated areas"
\* message.
C24_NoPraiseForCritical ==
    \A a \in 1..Len(assessments) :
        (\E i \in 1..Len(assessments[a].element_scores) :
            /\ assessments[a].element_scores[i].level = "critical"
            /\ assessments[a].element_scores[i].score[1] < 5000)
           => assessments[a].recommendations # <<DefaultRecommendation>>

---------------------------------------------------------------------------
(* C25 *)

\* the stored assessments of one video
AssessmentsOfVideo(video_id) ==
    {i \in 1..Len(assessments) : assessments[i].video_id = video_id}

\* a completed video names a stored assessment of that very video
CompletedNamesAssessment ==
    \A v \in 1..Len(videos) :
        videos[v].status = "completed" =>
            /\ videos[v].assessment_id # None
            /\ \E i \in AssessmentsOfVideo(videos[v].id) :
                    assessments[i].id = videos[v].assessment_id[1]

StatusInRange ==
    \A v \in 1..Len(videos) : videos[v].status \in {"processing", "completed", "error"}

\* one step: a video that appears starts as "processing"; a status that
\* changes was "processing", becomes "completed" or "error", and the step
\* is one of the video's own analysis task and of no other task
StatusStep ==
    /\ Len(videos') >= Len(videos)
    /\ \A v \in (Len(videos) + 1)..Len(videos') : videos'[v].status = "processing"
    /\ \A v \in 1..Len(videos) :
          videos'[v].status # videos[v].status =>
              /\ videos[v].status = "processing"
              /\ videos'[v].status \in {"completed", "error"}
              /\ tasks[v].video_id = videos[v].id
              /\ tasks'[v].pc # tasks[v].pc
              /\ \A w \in 1..Len(tasks) : w # v => tasks'[w] = tasks[w]

\* C25: a video's status starts as "processing" when it is uploaded and is
\* changed only by its own analysis task, to "completed" or to "error";
\* a status of "completed" or "error" never changes again; and a completed
\* video's assessment_id names a stored assessment whose video_id is that
\* video.
C25_VideoStatus ==
    /\ [](StatusInRange /\ CompletedNamesAssessment)
    /\ [][StatusStep]_vars

\* both outcomes side by side: one video completed, with its assessment
\* stored, and another one failed, both tasks having ended
C25_Witness ==
    \E v, w \in 1..Len(videos) :
        /\ videos[v].status = "completed" /\ tasks[v].pc = "done"
        /\ AssessmentsOfVideo(videos[v].id) # {}
        /\ videos[w].status = "error" /\ tasks[w].pc = "done"

---------------------------------------------------------------------------
(* C26 *)

\* C26: a video with status "error" has no stored assessment with its
\* video_id, also when a database write fails between the insert of the
\* assessment and the marking of the video as completed.
C26_NoAssessmentOnError ==
    \A v \in 1..Len(videos) :
        videos[v].status = "error" => AssessmentsOfVideo(videos[v].id) = {}

---------------------------------------------------------------------------
(* C27 *)

\* C27: once the analysis task of an uploaded video has ended, whichever of
\* its steps failed, the video has left "processing" and the uploaded file
\* is no longer on disk.
C27_TaskEndsCleanly ==
    \A v \in 1..Len(videos) :
        tasks[v].pc = "done" =>
            /\ videos[v].status # "processing"
            /\ v \notin files

---------------------------------------------------------------------------
(* C28 *)

\* C28: whatever the interleaving of the register requests, no two stored
\* users have the same email, and a request that was rejected or has not
\* stored yet has stored nothing.
C28_UniqueEmails ==
    /\ \A i, j \in 1..Len(users) : users[i].email = users[j].email => i = j
    /\ Len(users) = Cardinality({r \in 1..Len(registrations) : registrations[r].pc = "registered"})

---------------------------------------------------------------------------
(* C29 *)

\* what the user's client holds is what the endpoints answer now, as long
\* as the user's own documents are what they were
ResultsKept ==
    held # None =>
        LET h == held[1]
        IN  OwnDocuments(h.user) = h.own => ResultsFor(h.user) = h.results

\* every recommended peer is a teacher of the asking user, and not the target
PeersAreOwn ==
    \A user \in AllUsers, id \in 1..MaxTeachers :
        LET answer == PeerResponse(user, id)
        IN  answer.kind = "peers" =>
                \A k \in 1..Len(answer.recommendations) :
                    /\ answer.recommendations[k].peer_id # id
                    /\ OwnTeacher(user, answer.recommendations[k].peer_id)

\* C29: what the roster, dashboard, assessment list, summary-insights and
\* peer-recommendation endpoints answer a user depends only on the documents
\* that user created: whatever other users have added, changed or removed
\* since the user's last read, the answers are the same while the user's own
\* documents are; and no recommended peer is another user's teacher or the
\* target teacher.
C29_UserIsolation == ResultsKept /\ PeersAreOwn

\* a user with an assessed teacher has read; since then the other user has
\* saved a selection, created a teacher and got a video of that teacher
\* analysed, while the first user's documents are as they were
C29_Witness ==
    /\ held # None
    /\ LET h == held[1]
           other == CHOOSE u \in AllUsers : u # h.user
       IN  /\ OwnDocuments(h.user) = h.own
           /\ h.own.assessments # <<>>
           /\ h.results.roster.roster # <<>>
           /\ OwnDocuments(other).selection # None
           /\ OwnDocuments(other).teachers # <<>>
           /\ \E i \in 1..Len(assessments) :
                 assessments[i].user_id = other /\ assessments[i].id > h.at

---------------------------------------------------------------------------
(* C30 *)

\* C30: in the peer recommendations every weak area is an element id that
\* has an average in the target's own data, so neither default is ever
\* taken: every returned strength carries a name from the target's own
\* element scores, not its element id, and every match_score is the one
\* computed from the target's own averages.
C30_WeakAreasAreScored ==
    (resp.kind = "peers" /\ FindAssessments(resp.teacher_id, resp.user, NoDates) # <<>>) =>
        LET weak_areas == WeakAreasOf(resp.user, resp.teacher_id)
            ids == ScoredIds(resp.user, resp.teacher_id, NoDates)
        IN  /\ \A k \in 1..Len(weak_areas) :
                  /\ weak_areas[k] \in ids
                  /\ GroupOf(resp.user, resp.teacher_id, NoDates, weak_areas[k]) # {}
            /\ \A r \in 1..Len(resp.recommendations) :
                  LET rec == resp.recommendations[r]
                  IN  /\ \A k \in 1..Len(rec.strengths) :
                            /\ rec.strengths[k].element_id \in ids
                            /\ rec.strengths[k].name # rec.strengths[k].element_id
                            /\ rec.strengths[k].name
                                  \in TargetNames(resp.user, resp.teacher_id,
                                                  rec.strengths[k].element_id)
                      /\ FracEq(rec.match_score,
                                ExpectedMatch(resp.user, resp.teacher_id, rec.peer_id))

\* a recommended peer averages 7 or more on an element the target has no
\* score for: that element is no weak area and no strength
C30_Witness ==
    /\ resp.kind = "peers"
    /\ \E r \in 1..Len(resp.recommendations) :
          LET rec == resp.recommendations[r]
          IN  \E id \in ScoredIds(resp.user, rec.peer_id, NoDates)
                          \ ScoredIds(resp.user, resp.teacher_id, NoDates) :
                  /\ FracGe(ExactMean(GroupOf(resp.user, rec.peer_id, NoDates, id)), Pt(7))
                  /\ \A k \in 1..Len(rec.strengths) : rec.strengths[k].element_id # id

====
